---- MODULE Spec2Model ----
(***************************************************************************)
(* Segregation report pipeline of the PCM back-office application          *)
(* (SegregationReportProcessor in report_processors.py, with the column    *)
(* registry of CONSTANT_SEGREGATION.py and the writer of segregation.py).  *)
(*                                                                         *)
(* A run is modelled as one pass through the steps of                      *)
(* _process_segregation_files; pc is the position of the run.  File        *)
(* contents are the inputs: each read step draws the content of its file   *)
(* from a small set.                                                       *)
(*                                                                         *)
(* Cell values are tagged, because Python cells are heterogeneous:         *)
(*   Num(n)  a number, Str(s) a string, None, NaN (a blank pandas cell).   *)
(* A row is a Python dict: a function from column names to cell values     *)
(* whose DOMAIN is the set of keys present.                                *)
(*                                                                         *)
(* Amounts are integers.  Post-haircut pledge amounts are carried in       *)
(* thousandths, so that rounding to two decimals is visible.               *)
(***************************************************************************)
EXTENDS Integers, Sequences, FiniteSets, TLC

----------------------------------------------------------------------------
(* Bounds of the model *)

\* most rows of the two CP master files together
MaxMaster == 2
\* most rows of the pledge sheet
MaxPledge == 1
\* most rows of the pledge sheet when the pledge lookup is examined alone
MaxPledgeRows == 2
\* most rows of a lookup source file when the lookups are examined alone
MaxLookupRows == 2
\* most AV records and most AT records of master_records.json
MaxAV == 1
MaxAT == 2
\* most rows of the extra-records file and of the SANTOM file
MaxExtra == 1
MaxSantom == 1
\* most records of one list of the master-records editor
MaxRecords == 2

----------------------------------------------------------------------------
(* Cell values *)

Num(n) == [t |-> "num", n |-> n, s |-> ""]
Str(x) == [t |-> "str", n |-> 0, s |-> x]
None == [t |-> "none", n |-> 0, s |-> ""]
NaN == [t |-> "nan", n |-> 0, s |-> ""]

IsNum(v) == v.t = "num"
IsStr(v) == v.t = "str"

\* str.strip() on the strings that occur in the model
Strip(x) ==
  CASE x = " X" -> "X"
    [] x = " P" -> "P"
    [] x = "na " -> "na"
    [] x = " 0 " -> "0"
    [] x = " " -> ""
    [] x = "  " -> ""
    [] OTHER -> x

\* str.upper() on the strings that occur in the model
Upper(x) ==
  CASE x = "na" -> "NA"
    [] x = "fo" -> "FO"
    [] x = "cd" -> "CD"
    [] OTHER -> x

\* the decimal strings that float() accepts, with their values
NumericStrings ==
  ("0" :> 0) @@ ("5" :> 5) @@ ("7" :> 7) @@ ("9" :> 9) @@ ("10" :> 10)
    @@ ("30" :> 30) @@ ("40" :> 40) @@ ("100" :> 100)

\* float(v) succeeds: numbers, NaN and numeric strings (surrounding blanks
\* are accepted by float); None raises TypeError, other strings ValueError
CanFloat(v) ==
  \/ v.t \in {"num", "nan"}
  \/ v.t = "str" /\ Strip(v.s) \in DOMAIN NumericStrings

\* float(v), for a v with CanFloat(v)
ToFloat(v) ==
  IF v.t = "str" THEN Num(NumericStrings[Strip(v.s)]) ELSE v

\* a - b on two floats (NaN propagates)
Minus(a, b) ==
  IF a.t = "nan" \/ b.t = "nan" THEN NaN ELSE Num(a.n - b.n)

\* Python truthiness of a cell: None, 0 and "" are falsy, NaN is truthy
Truthy(v) ==
  CASE v.t = "none" -> FALSE
    [] v.t = "num" -> v.n # 0
    [] v.t = "str" -> v.s # ""
    [] OTHER -> TRUE

\* pd.isna(v)
IsNa(v) == v.t \in {"none", "nan"}

\* str(v) for the cells whose text the code inspects
PyStr(v) ==
  CASE v.t = "str" -> v.s
    [] v.t = "none" -> "None"
    [] v.t = "nan" -> "nan"
    [] v.t = "num" /\ v.n = 0 -> "0"
    [] OTHER -> "nonzero"

----------------------------------------------------------------------------
(* Column registry (CONSTANT_SEGREGATION.py).  The identity columns A..I   *)
(* are all kept; of the numeric columns J..BM the model keeps those the    *)
(* pipeline writes, plus M as the representative of the columns that no    *)
(* step populates.                                                         *)

A == "Date"
B == "Clearing Member PAN"
C == "Trading member PAN"
D == "CP Code"
E == "CP PAN"
F == "Client PAN"
G == "Account Type"
H == "Segment Indicator"
I == "UCC Code"
J == "Financial Ledger balance-A"
K == "Financial Ledger balance (clear)-B"
L == "Peak Financial Ledger Balance (Clear)-C"
M == "Bank Guarantee (BG) received by TM"
O == "Approved Securities Cash Component received by TM"
P == "Approved Securities Non-cash component received by TM"
AD == "Cash placed with CM"
AG == "Approved Securities Cash Component placed with CM"
AH == "Approved Securities Non-cash component placed with CM"
AT == "Cash placed with NCL"
AV == "Fixed deposit receipt (FDR) placed with NCL"
AW == "Approved Securities Cash Component placed with NCL"
AX == "Approved Securities Non-cash component placed with NCL"
AZ == "MTF /Non MTF indicator/Reason Code"
BB == "Govt Securities / T-bills received by TM"
BD == "Govt Securities/T-bills placed with CM"
BF == "Govt Securities/T bills placed with NCL"
BL == "Unclaimed/Unsettled Client Funds"

segregation_headers ==
  << A, B, C, D, E, F, G, H, I, J, K, L, M, O, P, AD, AG, AH, AT, AV, AW, AX,
     AZ, BB, BD, BF, BL >>

\* number of identity columns: the slice segregation_headers[9:] starts
\* after them
IdentityColumns == 9

\* segregation_headers[9:], the numeric segregation columns
SegCols == SubSeq(segregation_headers, IdentityColumns + 1, Len(segregation_headers))

Range(s) == {s[i] : i \in DOMAIN s}

\* history key carried by a row: which step made it and from which input
\* position.  It is not a column of the registry, so the normalizer copies it
\* through and the writer drops it.
ORIGIN == "_origin"
Origin(kind, idx) == [t |-> "origin", n |-> idx, s |-> kind]

----------------------------------------------------------------------------
(* Python dict helpers *)

\* d.get(k, dflt)
Get(d, k, dflt) == IF k \in DOMAIN d THEN d[k] ELSE dflt

\* d[k] = v
Put(d, k, v) == [c \in DOMAIN d \cup {k} |-> IF c = k THEN v ELSE d[c]]

EmptyDict == [c \in {} |-> None]

\* all sequences over S of length at most n
SeqUpTo(S, n) == UNION {[1..k -> S] : k \in 0..n}

----------------------------------------------------------------------------
(* Arguments of the run *)

\* date as entered in the form (dd/mm/yyyy) and the clearing-member PAN
date == "03/11/2026"
cp_pan == "CMPAN0000A"

\* datetime.strptime(d, "%d/%m/%Y").strftime("%d-%m-%Y") on the dates of the model
FormatDate(d) ==
  CASE d = "03/11/2026" -> "03-11-2026"
    [] OTHER -> "invalid"

formatted_date == FormatDate(date)

\* the values the operator may have typed in the "Cash with NCL" field
CashInputs == {"", "10", "abc"}

\* The form as submitted: the date, the clearing-member PAN, the output
\* folder and the path of the extra-records file, with whether a file exists
\* at that path and whether the output folder exists when the run starts.
\* The other required paths are filled in every form.
Form(d, pan, out, extra, there, out_there) ==
  [date |-> d, cp_pan |-> pan, output_path |-> out, extra_records |-> extra,
   extra_exists |-> there, output_exists |-> out_there]

ValidForm == Form(date, cp_pan, "out", "Extra_Records.xlsx", TRUE, TRUE)

\* the forms that validate_inputs turns down, with the output folder there
\* or not (a blank path names no folder)
InvalidForms ==
  { Form("DD/MM/YYYY", cp_pan, "out", "Extra_Records.xlsx", TRUE, TRUE),
    Form("DD/MM/YYYY", cp_pan, "out", "Extra_Records.xlsx", TRUE, FALSE),
    Form("  ", cp_pan, "out", "Extra_Records.xlsx", TRUE, TRUE),
    Form(date, " ", "out", "Extra_Records.xlsx", TRUE, TRUE),
    Form(date, " ", "out", "Extra_Records.xlsx", TRUE, FALSE),
    Form(date, cp_pan, "", "Extra_Records.xlsx", TRUE, FALSE),
    Form(date, cp_pan, "out", "", FALSE, TRUE),
    Form(date, cp_pan, "out", "", FALSE, FALSE),
    Form(date, cp_pan, "out", "Extra_Records.xlsx", FALSE, TRUE),
    Form(date, cp_pan, "out", "Extra_Records.xlsx", FALSE, FALSE) }

Forms == {ValidForm} \cup InvalidForms

\* validate_inputs: the message of the ValueError it raises, "" when the
\* form passes
validate_inputs(f) ==
  IF f.date = "DD/MM/YYYY" \/ Strip(f.date) = "" THEN "Please select a valid date."
  ELSE IF Strip(f.cp_pan) = "" THEN "Please enter CP PAN."
  ELSE IF Strip(f.extra_records) = "" THEN "Please select the following files"
  ELSE IF Strip(f.output_path) = "" THEN "Please select an output folder."
  ELSE IF f.extra_records # "" /\ ~f.extra_exists THEN "File not found"
  ELSE ""

\* the name of the report file: cp_pan, the formatted date without its
\* dashes, and the suffix _01.csv
WithoutDashes(d) ==
  CASE d = "03-11-2026" -> "03112026"
    [] OTHER -> d

OutputFileName(pan, fdate) ==
  CASE pan = "CMPAN0000A" /\ WithoutDashes(fdate) = "03112026" -> "CMPAN0000A_03112026_01.csv"
    [] OTHER -> "other_01.csv"

----------------------------------------------------------------------------
(* Input files *)

CPs == {"X", "Y"}

\* rows (CP Code, PAN Number) of a CP master file
MasterEntries == {<<"X", "PANX">>, <<"Y", "PANY">>}

\* The six lookup source files of one run.  Collateral and margin files are
\* sequences of <<ClientCode, value>>, valuation files sequences of
\* <<ClientCode, CashEquivalent, NonCash>>.
ActiveDay ==
  [ cash_collateral_fno |-> << <<"X", Num(1)>>, <<"X", Num(500)>> >>,
    cash_collateral_cds |-> << <<"X", Num(501)>> >>,
    daily_margin_nsefno |-> << <<"X", Num(200)>> >>,
    daily_margin_nsecr |-> << <<"X", Num(201)>> >>,
    collateral_valuation_fno |-> << <<"X", Num(50), Num(10)>> >>,
    collateral_valuation_cds |-> << <<"X", Num(51), Num(11)>> >> ]

QuietDay ==
  [ cash_collateral_fno |-> << <<"X", Str("NA")>> >>,
    cash_collateral_cds |-> << <<"X", Str("na ")>> >>,
    daily_margin_nsefno |-> << <<"X", Num(0)>> >>,
    daily_margin_nsecr |-> << <<"Y", Num(70)>> >>,
    collateral_valuation_fno |-> << <<"X", None, Str(" ")>> >>,
    collateral_valuation_cds |-> << >> ]

LookupFiles == {ActiveDay, QuietDay}

\* rows of a collateral or margin file and of a valuation file in which a
\* client code comes back with other values
SingleValuedRows == { <<"X", Num(1)>>, <<"X", Num(500)>>, <<"Y", Num(3)>> }
ValuationRows == { <<"X", Num(50), Num(10)>>, <<"X", Num(7), Num(0)>>, <<"Y", Num(1), Num(2)>> }

\* the source files of one segment, each with up to MaxLookupRows rows, next
\* to the files of ActiveDay for the other segment
LookupSheets ==
  { [ActiveDay EXCEPT !.cash_collateral_fno = c, !.daily_margin_nsefno = m,
                      !.collateral_valuation_fno = v] :
      c \in SeqUpTo(SingleValuedRows, MaxLookupRows),
      m \in SeqUpTo(SingleValuedRows, MaxLookupRows),
      v \in SeqUpTo(ValuationRows, MaxLookupRows) }
  \cup
  { [ActiveDay EXCEPT !.cash_collateral_cds = c, !.daily_margin_nsecr = m,
                      !.collateral_valuation_cds = v] :
      c \in SeqUpTo(SingleValuedRows, MaxLookupRows),
      m \in SeqUpTo(SingleValuedRows, MaxLookupRows),
      v \in SeqUpTo(ValuationRows, MaxLookupRows) }

\* rows of the "Valuation_G-Sec" sheet: CP code, segment, pledge type and
\* post-haircut value (thousandths)
PledgeRow(cp, seg, ptype, v) ==
  [CPCODE |-> cp, SEGMENT |-> seg, PLEDGE_TYPE |-> ptype, POST_HAIRCUT |-> v]

PledgeRows ==
  { PledgeRow(" X", "FNO", "E-Kuber", Num(10005)),
    PledgeRow("Y", "CDS", "E-Kuber", Num(5000)) }

PledgeFiles == SeqUpTo(PledgeRows, MaxPledge)

\* rows of a pledge sheet with several pledges of one CP code, pledges of
\* another segment and of another type, and a blank amount
PledgeSheetRows ==
  { PledgeRow(" X", "FNO", "E-Kuber", Num(7)),
    PledgeRow("X", "FNO", "E-Kuber", Num(1188)),
    PledgeRow("Y", "FNO", "E-Kuber", Num(10004)),
    PledgeRow("Y", "FNO", "E-Kuber", Num(10001)),
    PledgeRow("X", "CDS", "E-Kuber", Num(5000)),
    PledgeRow("X", "FNO", "Pledge", Num(5000)),
    PledgeRow("Y", "FNO", "E-Kuber", NaN) }

PledgeSheets == SeqUpTo(PledgeSheetRows, MaxPledgeRows)

----------------------------------------------------------------------------
(* Lookup builders *)

\* a dictionary in which the first row of a key would win
RECURSIVE DictZip_FirstWins(_)
DictZip_FirstWins(rows) ==
  IF rows = << >> THEN EmptyDict
  ELSE LET rest == DictZip_FirstWins(SubSeq(rows, 2, Len(rows)))
       IN Put(rest, rows[1][1], rows[1][2])

\* dict(zip(df[key], df[value])): a later row overwrites an earlier one
RECURSIVE DictZip(_)
DictZip(rows) ==
  IF rows = << >> THEN EmptyDict
  ELSE LET n == Len(rows)
       IN Put(DictZip(SubSeq(rows, 1, n - 1)), rows[n][1], rows[n][2])

\* the valuation loop: both fields of a client come from its last row
RECURSIVE ValuationLookup(_)
ValuationLookup(rows) ==
  IF rows = << >> THEN EmptyDict
  ELSE LET n == Len(rows)
       IN Put(ValuationLookup(SubSeq(rows, 1, n - 1)), rows[n][1],
              ("CashEquivalent" :> rows[n][2]) @@ ("NonCash" :> rows[n][3]))

\* Decimal.quantize(Decimal("0.01"), ROUND_HALF_UP) on an amount in
\* thousandths: the result is a whole number of hundredths, in thousandths
RoundHalfUp2(n) ==
  IF n >= 0 THEN ((n + 5) \div 10) * 10 ELSE 0 - (((0 - n) + 5) \div 10) * 10

\* sum of a sequence of integers
RECURSIVE SumSeq(_)
SumSeq(q) == IF q = << >> THEN 0 ELSE q[Len(q)] + SumSeq(SubSeq(q, 1, Len(q) - 1))

\* The total of a CP code is a binary float: 0.0 to which the post-haircut
\* values of its rows are added one by one.  Adding 0.0 changes nothing, so
\* the float is determined by the non-zero addends in order.  For the
\* amounts of the model (thousandths) IEEE-754 double addition gives the
\* decimal sum exactly as str() prints it, except for the sequences below,
\* whose float prints just under the decimal sum (0.007 + 1.188 prints
\* 1.1949999999999998).
FloatSumBelow ==
  { <<7, 1188>>, <<1188, 7>>, <<7, 1188, 7>>, <<1188, 7, 7>> }

\* str(value) of the float total of the addends: the decimal sum in
\* thousandths, and whether the text is just under it
FloatStr(addends) ==
  LET NonZero(x) == x # 0
  IN [k |-> SumSeq(addends), below |-> SelectSeq(addends, NonZero) \in FloatSumBelow]

\* rounding the exact decimal sum instead of the text of the float
QuantizeTotal_Exact(addends) == RoundHalfUp2(SumSeq(addends))

\* Decimal(str(value)).quantize(Decimal("0.01"), ROUND_HALF_UP), lines
\* 918-920: a text just under k thousandths rounds as k - 1 does
QuantizeTotal(addends) ==
  LET f == FloatStr(addends)
  IN IF f.below THEN RoundHalfUp2(f.k - 1) ELSE RoundHalfUp2(f.k)

\* the accumulation loop of _process_security_pledge_file: for each CP code
\* the values added to its total, in row order
RECURSIVE PledgeTotals(_)
PledgeTotals(rows) ==
  IF rows = << >> THEN EmptyDict
  ELSE LET n == Len(rows)
           acc == PledgeTotals(SubSeq(rows, 1, n - 1))
           row == rows[n]
           cp_code == Strip(row.CPCODE)
           segment == Strip(row.SEGMENT)
           pledge_type == Strip(row.PLEDGE_TYPE)
           post_haircut == IF IsNa(row.POST_HAIRCUT) THEN 0 ELSE row.POST_HAIRCUT.n
       IN IF segment = "FNO" /\ pledge_type = "E-Kuber"
            THEN Put(acc, cp_code, Append(Get(acc, cp_code, << >>), post_haircut))
            ELSE acc

\* _process_security_pledge_file: {cp: {H: "FNO", D: cp, post_haircut: total}}
\* with each total rounded once, after the summation
ProcessSecurityPledgeFile(rows) ==
  LET tot == PledgeTotals(rows)
  IN [cp \in DOMAIN tot |->
        (H :> Str("FNO")) @@ (D :> Str(cp))
          @@ ("post_haircut" :> Num(QuantizeTotal(tot[cp])))]

----------------------------------------------------------------------------
(* Override records and the extra-records / SANTOM files *)

\* an AV record as the master-records editor writes it: keyed by account
\* type and segment, the value kept as the text typed in the form
AVRecord(acct, seg, val) ==
  (G :> Str(acct)) @@ (H :> Str(seg)) @@ ("av_value" :> Str(val))

\* an AT record as the editor writes it
ATRecord(cp, seg, val) ==
  (D :> Str(cp)) @@ (H :> Str(seg)) @@ ("at_value" :> Str(val))

\* AV records that master_records.json may hold; the last one is a record
\* edited by hand that also carries a CP code
AVCandidates ==
  { AVRecord("C", "FO", "7"),
    AVRecord("P", "FO", "9"),
    Put(AVRecord("C", "FO", "5"), D, Str("X")) }

ATCandidates ==
  { ATRecord("X", "FO", "30"), ATRecord("X", "FO", "40") }

\* A file read by read_file is a DataFrame: every row has the columns of
\* the file, a blank cell being NaN.
ExtraColsFull == {A, D, G, H, AD, AV, AZ}
ExtraColsShort == {A, D, G, H, J}

ExtraRowsOf(cols) ==
  IF cols = ExtraColsFull
    THEN { (A :> Str("01-01-2020")) @@ (D :> Str("X")) @@ (G :> Str("P"))
             @@ (H :> Str("FO")) @@ (AD :> Num(100)) @@ (AV :> Num(5))
             @@ (AZ :> Str("MTF")) }
    ELSE { (A :> Str("01-01-2020")) @@ (D :> Str("X")) @@ (G :> Str("C"))
             @@ (H :> Str("FO")) @@ (J :> NaN) }

\* the extra-records files that may be supplied (one file without rows)
ExtraFiles ==
  UNION { {[columns |-> cols, rows |-> rs] :
             rs \in {x \in SeqUpTo(ExtraRowsOf(cols), MaxExtra) :
                       x # << >> \/ cols = ExtraColsFull}}
          : cols \in {ExtraColsFull, ExtraColsShort} }

\* extra-records files of up to two rows, with every account type and
\* segment the rule tells apart (an account type typed with a leading
\* blank among them), with and without the AV column
ExtraColsNoAV == {A, D, G, H, AD}

ExtraSheetRows(cols) ==
  { [c \in cols |->
       CASE c = A -> Str("01-01-2020")
         [] c = D -> Str("X")
         [] c = G -> Str(acct)
         [] c = H -> Str(seg)
         [] c = AD -> Num(100)
         [] c = AV -> Num(5)
         [] OTHER -> Str("MTF")] :
      acct \in {"P", " P", "C"}, seg \in {"FO", "CD"} }

ExtraSheets ==
  UNION { {[columns |-> cols, rows |-> rs] : rs \in SeqUpTo(ExtraSheetRows(cols), 2) \ {<< >>}}
          : cols \in {ExtraColsFull, ExtraColsNoAV} }

SantomColsFull == {D, G, H, AD, AG, AH, AT, AZ}
SantomColsShort == {D, G, H, AD}

SantomRow(acct, ad, ag, ah, at, az) ==
  (D :> Str("S")) @@ (G :> Str(acct)) @@ (H :> Str("FO")) @@ (AD :> ad)
    @@ (AG :> ag) @@ (AH :> ah) @@ (AT :> at) @@ (AZ :> az)

SantomRowsOf(cols) ==
  IF cols = SantomColsFull
    THEN { SantomRow("P", Num(100), Num(60), Num(20), Num(1), Str("MTF")),
           SantomRow("C", Num(300), Num(61), Num(21), Num(2), NaN),
           SantomRow("P", Str("n/a"), Num(62), Num(22), Num(3), NaN) }
    ELSE { (D :> Str("S")) @@ (G :> Str("P")) @@ (H :> Str("FO")) @@ (AD :> Num(100)),
           (D :> Str("S")) @@ (G :> Str("C")) @@ (H :> Str("CD")) @@ (AD :> Num(300)) }

\* the SANTOM files that may be supplied (one file without rows)
SantomFiles ==
  UNION { {[columns |-> cols, rows |-> rs] :
             rs \in {x \in SeqUpTo(SantomRowsOf(cols), MaxSantom) :
                       x # << >> \/ cols = SantomColsFull}}
          : cols \in {SantomColsFull, SantomColsShort} }

\* santom_file is blank: no file is supplied
NoFile == [columns |-> {}, rows |-> << >>]

----------------------------------------------------------------------------
(* Failures of a read (read_file, segregation.py lines 63-108) *)

\* the input files of a run, by the parameter that carries their path
InputFiles ==
  { "f_cp_master", "x_cp_master", "cash_collateral_cds", "cash_collateral_fno",
    "daily_margin_nsecr", "daily_margin_nsefno", "collateral_valuation_cds",
    "collateral_valuation_fno", "sec_pledge", "extra_records", "santom_file" }

\* the files whose handler tests the message for "permission error"
\* (lines 666, 676, 686, 695, 759)
PermissionChecked ==
  { "f_cp_master", "x_cp_master", "cash_collateral_cds", "cash_collateral_fno",
    "sec_pledge" }

\* what can go wrong with a read: the OS denies access (the file is open
\* elsewhere), the file has a type read_file does not know, a column the
\* step indexes is not there; the last fault is an unknown type again, of a
\* file kept in a folder named "Permission Error"
ReadFaults == {"denied", "unsupported", "missing_column", "unsupported_in_folder"}

\* str(e) of the exception the handler of the step receives.  read_file
\* wraps every exception of the pandas reader in RuntimeError("Error reading
\* <path>: <text>"); a missing column is the KeyError of the step itself.
ExceptionText(fault) ==
  CASE fault = "denied" ->
         "Error reading C:/in/file.xlsx: [Errno 13] Permission denied: 'C:/in/file.xlsx'"
    [] fault = "unsupported" ->
         "Error reading C:/in/file.txt: Unsupported file type: .txt"
    [] fault = "unsupported_in_folder" ->
         "Error reading C:/Permission Error/file.txt: Unsupported file type: .txt"
    [] OTHER -> "'ClientCode'"

\* "permission error" in str(e).lower(), on the texts above
MentionsPermissionError(text) ==
  text = "Error reading C:/Permission Error/file.txt: Unsupported file type: .txt"

----------------------------------------------------------------------------
(* State *)

VARIABLES
  pc,                   \* position of the run in _process_segregation_files
  cash_with_ncl,        \* the scalar typed by the operator (text)
  cp_master_fo,         \* rows (CP Code, PAN Number) of F_CPMaster_data
  cp_master_cd,         \* rows (CP Code, PAN Number) of X_CPMaster_data
  lookups,              \* the six collateral / margin / valuation lookups
  sec_pledge_cp_lookup, \* the pledge lookup
  av_records,           \* AV_Records of master_records.json
  at_records,           \* AT_Records of master_records.json
  extra_records_df,     \* the extra-records file as read
  extra_records_data,   \* the extra records built from it
  santom_df,            \* the SANTOM file as read (NoFile when not supplied)
  generated,            \* history: the rows as _generate_report_data returned them
  filtered,             \* history: the rows as _segregation_data_filter returned them
  data,                 \* the row list of the run
  output,               \* the rows written to the report file: one sequence of cells per row
  result,               \* what the run returned
  form,                 \* the form as submitted
  store,                \* master_records.json: "absent", "corrupt" or "present"
  sec_pledge_df,        \* the rows of the pledge sheet as read
  lookup_df,            \* the six lookup source files as read
  report_file,          \* the report file in the output folder: "" or its name
  csv_zip,              \* members of <report name>.zip, {} when it was not made
  archive,              \* members of SEGREGATION_REPORT_<time>.zip, {} when not made
  insert_calls,         \* calls of insert_report so far
  log_calls,            \* calls of log_error so far
  error_log,            \* entries appended to error_log.txt so far
  output_dir,           \* the output folder exists
  caught,               \* history: the handlers that caught an exception
  failed_at,            \* history: the step whose exception ended the run, "" if none
  read_fault,           \* history: what went wrong with the read that failed, "" if none
  table_type_var,       \* editor: the table type selected, "AV_Records" or "AT_Records"
  master_records_data,  \* editor: the records of the selected table type, in memory
  records_tree,         \* editor: the rows shown in the table
  selected_record_id,   \* editor: index of the record being edited, NoSelection if none
  json_file,            \* master_records.json as the editor and the run see it
  process_thread,       \* UI: "idle", or where the worker thread of a run is
  grab,                 \* UI: the loading dialog is shown and holds the pointer grab
  focus,                \* UI: the window that receives the keys
  store_seen,           \* history: how the worker of the last run found master_records.json
  wrote_in_run,         \* history: a save began while the worker of the last run was executing
  last_op               \* history: the last add or update and its outcome

\* the state the steps of lines 660-856 do not touch
uiVars ==
  << table_type_var, master_records_data, records_tree, selected_record_id,
     json_file, process_thread, grab, focus, store_seen, wrote_in_run, last_op >>
inVars == << form, store, sec_pledge_df, lookup_df, uiVars >>
outVars == << report_file, csv_zip, archive, insert_calls >>
logVars == << log_calls, error_log, output_dir >>
errVars == << logVars, caught, failed_at, read_fault >>

vars ==
  << pc, cash_with_ncl, cp_master_fo, cp_master_cd, lookups,
     sec_pledge_cp_lookup, av_records, at_records, extra_records_df,
     extra_records_data, santom_df, generated, filtered, data, output, result,
     inVars, outVars, errVars >>

EmptyLookups ==
  [ fo_collateral_lookup |-> EmptyDict, cd_collateral_lookup |-> EmptyDict,
    fo_daily_margin_lookup |-> EmptyDict, cd_daily_margin_lookup |-> EmptyDict,
    fo_collateral_valuation_lookup |-> EmptyDict,
    cd_collateral_valuation_lookup |-> EmptyDict ]

\* selected_record_id = None
NoSelection == 0 - 1

\* master_records.json before the first save; partial is TRUE while a save
\* has opened the file for writing and has not finished json.dump
NoStore == [exists |-> FALSE, partial |-> FALSE, AV_Records |-> << >>, AT_Records |-> << >>]

NoOp == [op |-> "", rejected |-> FALSE, duplicate |-> FALSE]

Init ==
  /\ pc = "start"
  /\ cash_with_ncl \in CashInputs
  /\ cp_master_fo = << >>
  /\ cp_master_cd = << >>
  /\ lookups = EmptyLookups
  /\ sec_pledge_cp_lookup = EmptyDict
  /\ av_records = << >>
  /\ at_records = << >>
  /\ extra_records_df = NoFile
  /\ extra_records_data = << >>
  /\ santom_df = NoFile
  /\ generated = << >>
  /\ filtered = << >>
  /\ data = << >>
  /\ output = << >>
  /\ result = "running"
  /\ form \in Forms
  /\ store = "absent"
  /\ sec_pledge_df = << >>
  /\ lookup_df = [f \in DOMAIN ActiveDay |-> << >>]
  /\ report_file = ""
  /\ csv_zip = {}
  /\ archive = {}
  /\ insert_calls = 0
  /\ log_calls = 0
  /\ error_log = 0
  /\ output_dir = form.output_exists
  /\ caught = {}
  /\ failed_at = ""
  /\ read_fault = ""
  /\ table_type_var = "AV_Records"
  /\ master_records_data = << >>
  /\ records_tree = << >>
  /\ selected_record_id = NoSelection
  /\ json_file = NoStore
  /\ process_thread = "idle"
  /\ grab = FALSE
  /\ focus = "av_value_entry"
  /\ store_seen = ""
  /\ wrote_in_run = FALSE
  /\ last_op = NoOp

----------------------------------------------------------------------------
(* How a step ends *)

\* ErrorLogger.log_error(output_dir, ...) (utils.py lines 103-118): the
\* folder is made when it is not there, which raises for a blank path, and
\* an entry is appended to error_log.txt in it
log_error ==
  /\ log_calls' = log_calls + 1
  /\ IF ~output_dir /\ form.output_path = ""
       THEN UNCHANGED << error_log, output_dir >>
       ELSE /\ output_dir' = TRUE
            /\ error_log' = error_log + 1

\* create_output_directory (lines 47-53)
create_output_directory == output_dir' = TRUE

\* the step went through: the run is still running, nothing was caught
Proceeds == UNCHANGED << result, errVars >>

\* an exception of the step reaches the handler of lines 883-885: log_error
\* is called and the run returns None
Aborts(step, handlers) ==
  /\ pc' = "failed"
  /\ result' = "None"
  /\ log_error
  /\ caught' = caught \cup handlers \cup {"top"}
  /\ failed_at' = step
  /\ UNCHANGED read_fault

\* reading file fails with this fault.  The handlers of the files of
\* PermissionChecked return handle_file_permission_error(...) when the text
\* mentions "permission error"; every other case re-raises a wrapped
\* exception, which the handler of lines 883-885 receives.
ReadFails(file, fault) ==
  IF file \in PermissionChecked /\ MentionsPermissionError(ExceptionText(fault))
    THEN /\ pc' = "failed"
         /\ result' = "PERMISSION_ERROR_HANDLED"
         /\ caught' = caught \cup {file}
         /\ failed_at' = file
         /\ read_fault' = fault
         /\ UNCHANGED logVars
    ELSE /\ pc' = "failed"
         /\ result' = "None"
         /\ log_error
         /\ caught' = caught \cup {file, "top"}
         /\ failed_at' = file
         /\ read_fault' = fault

----------------------------------------------------------------------------
(* process (lines 584-613): validation, then the run *)

ValidateInputs ==
  /\ pc = "start"
  /\ IF validate_inputs(form) = ""
       THEN /\ pc' = "validated"
            /\ create_output_directory
            /\ UNCHANGED << result, log_calls, error_log, caught, failed_at, read_fault >>
       ELSE /\ pc' = "failed"
            /\ result' = "raised"
            /\ log_error
            /\ caught' = caught \cup {"process"}
            /\ failed_at' = "validate_inputs"
            /\ UNCHANGED read_fault
  /\ UNCHANGED << cash_with_ncl, cp_master_fo, cp_master_cd, lookups,
                  sec_pledge_cp_lookup, av_records, at_records, extra_records_df,
                  extra_records_data, santom_df, generated, filtered, data,
                  output, inVars, outVars >>

----------------------------------------------------------------------------
(* Reading the inputs (lines 660-762) *)

\* read F_CPMaster_data and X_CPMaster_data
ReadCPMasters ==
  /\ pc = "validated"
  /\ \/ /\ \E fo \in SeqUpTo(MasterEntries, MaxMaster) :
            \E cd \in SeqUpTo(MasterEntries, MaxMaster - Len(fo)) :
              /\ cp_master_fo' = fo
              /\ cp_master_cd' = cd
        /\ pc' = "masters_read"
        /\ Proceeds
     \/ /\ \E file \in {"f_cp_master", "x_cp_master"}, fault \in ReadFaults :
              ReadFails(file, fault)
        /\ UNCHANGED << cp_master_fo, cp_master_cd >>
  /\ UNCHANGED << cash_with_ncl, lookups, sec_pledge_cp_lookup, av_records,
                  at_records, extra_records_df, extra_records_data, santom_df,
                  generated, filtered, data, output, inVars, outVars >>

\* read the cash collateral, daily margin and collateral valuation files
LookupInputs ==
  { "cash_collateral_cds", "cash_collateral_fno", "daily_margin_nsecr",
    "daily_margin_nsefno", "collateral_valuation_cds", "collateral_valuation_fno" }

ReadLookupsFrom(files) ==
  /\ pc = "masters_read"
  /\ \/ /\ \E f \in files :
            /\ lookup_df' = f
            /\ lookups' =
                 [ fo_collateral_lookup |-> DictZip(f.cash_collateral_fno),
                   cd_collateral_lookup |-> DictZip(f.cash_collateral_cds),
                   fo_daily_margin_lookup |-> DictZip(f.daily_margin_nsefno),
                   cd_daily_margin_lookup |-> DictZip(f.daily_margin_nsecr),
                   fo_collateral_valuation_lookup |-> ValuationLookup(f.collateral_valuation_fno),
                   cd_collateral_valuation_lookup |-> ValuationLookup(f.collateral_valuation_cds) ]
        /\ pc' = "lookups_read"
        /\ Proceeds
     \/ /\ \E file \in LookupInputs, fault \in ReadFaults : ReadFails(file, fault)
        /\ UNCHANGED << lookups, lookup_df >>
  /\ UNCHANGED << cash_with_ncl, cp_master_fo, cp_master_cd, sec_pledge_cp_lookup,
                  av_records, at_records, extra_records_df, extra_records_data,
                  santom_df, generated, filtered, data, output, form, store,
                  sec_pledge_df, uiVars, outVars >>

ReadLookups == ReadLookupsFrom(LookupFiles)

\* the same step on source files in which client codes come back
ReadLookupSheets == ReadLookupsFrom(LookupSheets)

\* read the pledge sheet and build the pledge lookup
ReadSecPledgeFrom(files) ==
  /\ pc = "lookups_read"
  /\ \/ /\ \E f \in files :
              /\ sec_pledge_df' = f
              /\ sec_pledge_cp_lookup' = ProcessSecurityPledgeFile(f)
        /\ pc' = "pledge_read"
        /\ Proceeds
     \/ /\ \E fault \in ReadFaults : ReadFails("sec_pledge", fault)
        /\ UNCHANGED << sec_pledge_df, sec_pledge_cp_lookup >>
  /\ UNCHANGED << cash_with_ncl, cp_master_fo, cp_master_cd, lookups, av_records,
                  at_records, extra_records_df, extra_records_data, santom_df,
                  generated, filtered, data, output, form, store, lookup_df,
                  uiVars, outVars >>

ReadSecPledge == ReadSecPledgeFrom(PledgeFiles)

\* the same step on a sheet with several rows
ReadSecPledgeSheet == ReadSecPledgeFrom(PledgeSheets)

----------------------------------------------------------------------------
(* Report Row Generator (_generate_report_data, lines 979-1076) *)

\* one generated row: seg is "FO" or "CD", gate the pledge segment the
\* branch of that segment tests for ("FNO" in the FO loop, "CDS" in the CD loop)
GenRow(seg, gate, idx, entry, collateral, margin, valuation, pledge) ==
  LET cp == entry[1]
      pan_no == entry[2]
      cv_lookup == Get(valuation, cp, ("CashEquivalent" :> Num(0)) @@ ("NonCash" :> Num(0)))
      row == (A :> Str(formatted_date)) @@ (B :> Str(cp_pan)) @@ (C :> Str(cp_pan))
               @@ (D :> Str(cp)) @@ (E :> Str(pan_no)) @@ (F :> Str(""))
               @@ (G :> Str("C")) @@ (H :> Str(seg)) @@ (I :> Str(""))
               @@ (J :> Get(collateral, cp, Num(0)))
               @@ (K :> Get(margin, cp, Num(0)))
               @@ (L :> Get(margin, cp, Num(0)))
               @@ (O :> cv_lookup["CashEquivalent"])
               @@ (P :> cv_lookup["NonCash"])
               @@ (ORIGIN :> Origin(seg, idx))
      dup == (AD :> row[K]) @@ (AV :> row[K]) @@ (AG :> row[O]) @@ (AW :> row[O])
               @@ (AH :> row[P]) @@ (AX :> row[P]) @@ row
      pledge_info == Get(pledge, cp, EmptyDict)
  IN IF /\ pledge # EmptyDict
        /\ pledge_info # EmptyDict
        /\ Get(pledge_info, H, None) = Str(gate)
       THEN LET val == Get(pledge_info, "post_haircut", Num(0))
            IN (BB :> val) @@ (BD :> val) @@ (BF :> val) @@ dup
       ELSE dup

\* the FO loop building one row per distinct CP code only
GenFO_UniqueCodes(master, lk, pledge) ==
  LET all == [i \in 1..Len(master) |->
                GenRow("FO", "FNO", i, master[i], lk.fo_collateral_lookup,
                       lk.fo_daily_margin_lookup, lk.fo_collateral_valuation_lookup, pledge)]
      First(r) == \A k \in 1..(r[ORIGIN].n - 1) : master[k][1] # master[r[ORIGIN].n][1]
  IN SelectSeq(all, First)

\* the FO loop reading the margin of the CD segment
GenFO_CdMargin(master, lk, pledge) ==
  [i \in 1..Len(master) |->
     GenRow("FO", "FNO", i, master[i], lk.fo_collateral_lookup,
            lk.cd_daily_margin_lookup, lk.fo_collateral_valuation_lookup, pledge)]

\* the FO loop (lines 993-1032)
GenFO(master, lk, pledge) ==
  [i \in 1..Len(master) |->
     GenRow("FO", "FNO", i, master[i], lk.fo_collateral_lookup,
            lk.fo_daily_margin_lookup, lk.fo_collateral_valuation_lookup, pledge)]

\* the CD loop testing the pledge segment of the FO loop
GenCD_GateFNO(master, lk, pledge) ==
  [i \in 1..Len(master) |->
     GenRow("CD", "FNO", i, master[i], lk.cd_collateral_lookup,
            lk.cd_daily_margin_lookup, lk.cd_collateral_valuation_lookup, pledge)]

\* the CD loop (lines 1035-1074)
GenCD(master, lk, pledge) ==
  [i \in 1..Len(master) |->
     GenRow("CD", "CDS", i, master[i], lk.cd_collateral_lookup,
            lk.cd_daily_margin_lookup, lk.cd_collateral_valuation_lookup, pledge)]

GenerateReportData ==
  /\ pc = "pledge_read"
  /\ data' = GenFO(cp_master_fo, lookups, sec_pledge_cp_lookup)
               \o GenCD(cp_master_cd, lookups, sec_pledge_cp_lookup)
  /\ generated' = data'
  /\ pc' = "generated"
  /\ UNCHANGED << cash_with_ncl, cp_master_fo, cp_master_cd, lookups,
                  sec_pledge_cp_lookup, av_records, at_records, extra_records_df,
                  extra_records_data, santom_df, filtered, output, result,
                  inVars, outVars, errVars >>

----------------------------------------------------------------------------
(* Master records and the AV loop (lines 770-795) *)

\* index of the first element of recs that satisfies Match, 0 when none does
FirstMatch(recs, Match(_)) ==
  IF \E i \in DOMAIN recs : Match(recs[i])
    THEN CHOOSE i \in DOMAIN recs : Match(recs[i]) /\ \A j \in 1..(i - 1) : ~Match(recs[j])
    ELSE 0

\* (rec.get(k) or "").strip()
GetOrBlankStripped(rec, k) ==
  LET v == Get(rec, k, None)
  IN IF Truthy(v) THEN Strip(PyStr(v)) ELSE ""

\* the test of line 786: the record's CP code and segment against the row's
AVMatches(av_record, data_record) ==
  /\ GetOrBlankStripped(av_record, D) = Strip(PyStr(Get(data_record, D, Str(""))))
  /\ GetOrBlankStripped(av_record, H) = Strip(PyStr(Get(data_record, H, Str(""))))

\* the body of the AV loop for one row
ApplyAV(data_record, avs) ==
  LET cp_key == Strip(PyStr(Get(data_record, D, Str(""))))
      seg_key == Strip(PyStr(Get(data_record, H, Str(""))))
      Hit(r) == AVMatches(r, data_record)
      i == FirstMatch(avs, Hit)
  IN IF cp_key = "" \/ seg_key = "" \/ i = 0 THEN data_record
     ELSE LET av_val_raw == IF "av_value" \in DOMAIN avs[i]
                              THEN avs[i]["av_value"]
                              ELSE Get(avs[i], AV, None)
          IN IF av_val_raw \notin {None, Str("")} /\ CanFloat(av_val_raw)
               THEN Put(data_record, AV, ToFloat(av_val_raw))
               ELSE data_record

\* master_records.json as the run finds it: not there, there but not
\* parsable as JSON, or there with its two lists
StoreStates == {"absent", "corrupt", "present"}

\* the store falling back to built-in records when the file cannot be used
get_master_records_Fallback(st, avs, ats) ==
  IF st = "present" THEN [av |-> avs, at |-> ats]
  ELSE [av |-> <<Put(AVRecord("C", "FO", "5"), D, Str("X"))>>,
        at |-> <<ATRecord("X", "FO", "30")>>]

\* _get_master_records() (lines 1263-1287): both lists are empty unless the
\* file exists and json.load succeeds
get_master_records(st, avs, ats) ==
  IF st = "present" THEN [av |-> avs, at |-> ats] ELSE [av |-> << >>, at |-> << >>]

\* the lists a file in state st may hold: none at all when it is absent,
\* any content behind the syntax error when it is corrupt
StoreContents(st) ==
  IF st = "absent" THEN {<< << >>, << >> >>}
  ELSE IF st = "corrupt" THEN {<< <<AVRecord("C", "FO", "7")>>, <<ATRecord("X", "FO", "30")>> >>}
  ELSE SeqUpTo(AVCandidates, MaxAV) \X SeqUpTo(ATCandidates, MaxAT)

\* the override lists of the extra-records rule: up to two AV records, of
\* which two are of account type P and segment FO with different values
AVRuleCandidates ==
  { AVRecord("C", "FO", "7"), AVRecord("P", "FO", "9"),
    AVRecord("P", "FO", "8"), AVRecord("P", "CD", "6") }

AVRuleContents == SeqUpTo(AVRuleCandidates, 2) \X {<< >>}

\* _get_master_records, then the AV loop over the generated rows; present
\* is the set of contents a parsable file may have
LoadMasterRecordsFrom(present) ==
  /\ pc = "generated"
  /\ \E st \in StoreStates :
     \E content \in (IF st = "present" THEN present ELSE StoreContents(st)) :
       LET recs == get_master_records(st, content[1], content[2])
       IN /\ store' = st
          /\ av_records' = recs.av
          /\ at_records' = recs.at
          /\ data' = [i \in DOMAIN data |-> ApplyAV(data[i], recs.av)]
          /\ caught' = IF st = "corrupt" THEN caught \cup {"master_records"} ELSE caught
  /\ pc' = "av_applied"
  /\ UNCHANGED << cash_with_ncl, cp_master_fo, cp_master_cd, lookups,
                  sec_pledge_cp_lookup, extra_records_df, extra_records_data,
                  santom_df, generated, filtered, output, result,
                  form, sec_pledge_df, lookup_df, uiVars, outVars, logVars,
                  failed_at, read_fault >>

LoadMasterRecordsAndApplyAV == LoadMasterRecordsFrom(StoreContents("present"))

LoadAVRuleRecords == LoadMasterRecordsFrom(AVRuleContents)

----------------------------------------------------------------------------
(* Extra records (lines 797-827) *)

\* the AV record the custom rule of lines 814-822 picks: the first one with
\* account type "P" and segment "FO"
IsPFO(av_record) ==
  Get(av_record, G, None) = Str("P") /\ Get(av_record, H, None) = Str("FO")

\* the record as it would be with the Date of the file kept
ExtraRecord_KeepsDate(row, columns, avs, idx) ==
  LET record == [c \in columns \cup {ORIGIN} |->
                   IF c = ORIGIN THEN Origin("extra", idx) ELSE row[c]]
      i == FirstMatch(avs, IsPFO)
  IN IF /\ Strip(PyStr(Get(row, G, Str("")))) = "P"
        /\ Strip(PyStr(Get(row, H, Str("")))) = "FO"
        /\ i # 0
       THEN Put(record, AV, avs[i]["av_value"])
       ELSE record

\* the record as it would be with the last P/FO record taken
ExtraRecord_LastMatch(row, columns, avs, idx) ==
  LET record == [c \in columns \cup {ORIGIN} |->
                   IF c = ORIGIN THEN Origin("extra", idx)
                   ELSE IF c = A THEN Str(formatted_date)
                   ELSE row[c]]
      hits == {k \in DOMAIN avs : IsPFO(avs[k])}
  IN IF /\ Strip(PyStr(Get(row, G, Str("")))) = "P"
        /\ Strip(PyStr(Get(row, H, Str("")))) = "FO"
        /\ hits # {}
       THEN Put(record, AV, avs[CHOOSE k \in hits : \A m \in hits : m <= k]["av_value"])
       ELSE record

\* the record built from one row of the extra-records file
ExtraRecord(row, columns, avs, idx) ==
  LET record == [c \in columns \cup {ORIGIN} |->
                   IF c = ORIGIN THEN Origin("extra", idx)
                   ELSE IF c = A THEN Str(formatted_date)
                   ELSE row[c]]
      i == FirstMatch(avs, IsPFO)
  IN IF /\ Strip(PyStr(Get(row, G, Str("")))) = "P"
        /\ Strip(PyStr(Get(row, H, Str("")))) = "FO"
        /\ i # 0
       THEN Put(record, AV, avs[i]["av_value"])
       ELSE record

\* the custom rule reads av_record["av_value"]: a matching record without
\* that key raises KeyError
ExtraRaises(row, avs) ==
  /\ Strip(PyStr(Get(row, G, Str("")))) = "P"
  /\ Strip(PyStr(Get(row, H, Str("")))) = "FO"
  /\ FirstMatch(avs, IsPFO) # 0
  /\ "av_value" \notin DOMAIN avs[FirstMatch(avs, IsPFO)]

ReadExtraRecordsFrom(files) ==
  /\ pc = "av_applied"
  /\ \/ \E f \in files :
          /\ extra_records_df' = f
          /\ IF \E i \in DOMAIN f.rows : ExtraRaises(f.rows[i], av_records)
               THEN /\ Aborts("extra_records", {"extra_records"})
                    /\ UNCHANGED extra_records_data
               ELSE /\ pc' = "extras_read"
                    /\ extra_records_data' =
                         [i \in DOMAIN f.rows |-> ExtraRecord(f.rows[i], f.columns, av_records, i)]
                    /\ Proceeds
     \/ /\ \E fault \in ReadFaults : ReadFails("extra_records", fault)
        /\ UNCHANGED << extra_records_df, extra_records_data >>
  /\ UNCHANGED << cash_with_ncl, cp_master_fo, cp_master_cd, lookups,
                  sec_pledge_cp_lookup, av_records, at_records, santom_df,
                  generated, filtered, data, output, inVars, outVars >>

ReadExtraRecords == ReadExtraRecordsFrom(ExtraFiles)

ReadExtraSheets == ReadExtraRecordsFrom(ExtraSheets)

----------------------------------------------------------------------------
(* Row Normalizer/Sorter (_segregation_data_filter, lines 1078-1149) *)

\* step 1 with the test for "NA" made on the text as it is
NormalizeValue_CaseSensitive(val) ==
  IF \/ val = None
     \/ IsStr(val) /\ (Strip(val.s) = "" \/ Strip(val.s) = "NA")
    THEN Num(0)
    ELSE val

\* step 1 for one cell of a segregation column
NormalizeValue(val) ==
  IF \/ val = None
     \/ IsStr(val) /\ (Strip(val.s) = "" \/ Upper(Strip(val.s)) = "NA")
    THEN Num(0)
    ELSE val

\* step 1 for one row: every column of headers gets a value, the other
\* keys of the row are copied as they are
NormalizeRow(row, headers) ==
  [c \in Range(headers) \cup DOMAIN row |->
     IF c \in Range(headers) THEN NormalizeValue(Get(row, c, Num(0))) ELSE row[c]]

\* the sort key str(x.get(seg_col, "")).strip().upper()
SegKey(row) == Upper(Strip(PyStr(Get(row, H, Str("")))))

\* the order of Python string comparison on the keys that occur
KeyRank(k) ==
  CASE k = "" -> 0
    [] k = "CD" -> 1
    [] k = "FO" -> 2
    [] OTHER -> 3

\* the sort with the CP code as a second key
RECURSIVE SortedBySegment_ThenCode(_)
SortedBySegment_ThenCode(rows) ==
  IF rows = << >> THEN << >>
  ELSE LET n == Len(rows)
           init == SortedBySegment_ThenCode(SubSeq(rows, 1, n - 1))
           last == rows[n]
           CodeRank(r) == IF Get(r, D, Str("")) = Str("X") THEN 1 ELSE 2
           Key(r) == 10 * KeyRank(SegKey(r)) + CodeRank(r)
           keep == Cardinality({i \in DOMAIN init : Key(init[i]) <= Key(last)})
       IN SubSeq(init, 1, keep) \o << last >> \o SubSeq(init, keep + 1, Len(init))

\* sorted(rows, key=SegKey): stable, ascending
RECURSIVE SortedBySegment(_)
SortedBySegment(rows) ==
  IF rows = << >> THEN << >>
  ELSE LET n == Len(rows)
           init == SortedBySegment(SubSeq(rows, 1, n - 1))
           last == rows[n]
           \* last goes after every row whose key is not greater than its own
           keep == Cardinality({i \in DOMAIN init :
                                  KeyRank(SegKey(init[i])) <= KeyRank(SegKey(last))})
       IN SubSeq(init, 1, keep) \o << last >> \o SubSeq(init, keep + 1, Len(init))

\* is_all_zero with any() in the place of all()
is_all_zero_Any(row, headers) ==
  \E k \in DOMAIN row \cap Range(headers) :
    \/ row[k] = Num(0)
    \/ row[k] = Str("0")
    \/ Strip(PyStr(row[k])) = "0"

\* is_all_zero (lines 1120-1126)
is_all_zero(row, headers) ==
  \A k \in DOMAIN row \cap Range(headers) :
    \/ row[k] = Num(0)
    \/ row[k] = Str("0")
    \/ Strip(PyStr(row[k])) = "0"

\* lines 1144-1147 for one row
SetSentinels(row) == Put(Put(row, AZ, Str("NA")), BL, Str("NA"))

\* the filter appending the extra records after the zero rows
segregation_data_filter_ExtrasLast(rows, headers, extra_records) ==
  LET normalized == [i \in DOMAIN rows |-> NormalizeRow(rows[i], headers)]
      seg_sorted == SortedBySegment(normalized)
      IsZero(r) == is_all_zero(r, headers)
      NonZero(r) == ~is_all_zero(r, headers)
      final_data == SelectSeq(seg_sorted, NonZero) \o SelectSeq(seg_sorted, IsZero)
                      \o extra_records
  IN [i \in DOMAIN final_data |-> SetSentinels(final_data[i])]

\* the whole of _segregation_data_filter
segregation_data_filter(rows, headers, extra_records) ==
  LET normalized == [i \in DOMAIN rows |-> NormalizeRow(rows[i], headers)]
      seg_sorted == SortedBySegment(normalized)
      IsZero(r) == is_all_zero(r, headers)
      NonZero(r) == ~is_all_zero(r, headers)
      zero_rows == SelectSeq(seg_sorted, IsZero)
      non_zero_rows == SelectSeq(seg_sorted, NonZero)
      final_data == IF extra_records # << >>
                      THEN non_zero_rows \o extra_records \o zero_rows
                      ELSE non_zero_rows \o zero_rows
  IN [i \in DOMAIN final_data |-> SetSentinels(final_data[i])]

SegregationDataFilter ==
  /\ pc = "extras_read"
  /\ data' = segregation_data_filter(data, SegCols, extra_records_data)
  /\ filtered' = data'
  /\ pc' = "filtered"
  /\ UNCHANGED << cash_with_ncl, cp_master_fo, cp_master_cd, lookups,
                  sec_pledge_cp_lookup, av_records, at_records, extra_records_df,
                  extra_records_data, santom_df, generated, output, result,
                  inVars, outVars, errVars >>

----------------------------------------------------------------------------
(* AT Adjustment Pass (lines 832-849) *)

\* the test of lines 841-842
ATMatches(at_record, data_record) ==
  /\ Get(data_record, D, Str("")) = Get(at_record, D, Str(""))
  /\ Get(data_record, H, Str("")) = Get(at_record, H, Str(""))

\* at_record.get("at_value", 0)
ATValueRaw(at_record) == Get(at_record, "at_value", Num(0))

\* the scan without its break: the last matching AT record wins
ATIndex_LastMatch(data_record, ats) ==
  IF \E i \in DOMAIN ats : ATMatches(ats[i], data_record)
    THEN CHOOSE i \in DOMAIN ats :
           /\ ATMatches(ats[i], data_record)
           /\ \A j \in (i + 1)..Len(ats) : ~ATMatches(ats[j], data_record)
    ELSE 0

\* index of the first AT record that matches the row, 0 when none does
ATIndex(data_record, ats) ==
  LET Hit(r) == ATMatches(r, data_record) IN FirstMatch(ats, Hit)

\* the inner loop raises: float() of the at_value of a record scanned up to
\* the match fails, or the matched row has no usable AD value
ATRaises(data_record, ats) ==
  LET i == ATIndex(data_record, ats)
      scanned == IF i = 0 THEN Len(ats) ELSE i
  IN \/ \E j \in 1..scanned : ~CanFloat(ATValueRaw(ats[j]))
     \/ /\ i # 0
        /\ \/ AD \notin DOMAIN data_record
           \/ data_record[AD].t \notin {"num", "nan"}

\* the adjustment also written back to AD
ApplyAT_AlsoAD(data_record, ats) ==
  LET i == ATIndex(data_record, ats)
  IN IF i = 0 THEN data_record
     ELSE LET at_value == ToFloat(ATValueRaw(ats[i]))
              av == Minus(data_record[AD], at_value)
          IN Put(Put(Put(data_record, AV, av), AT, at_value), AD, av)

\* the AV override applied once more after the adjustment
ApplyAT_ThenAV(data_record, ats) ==
  LET i == ATIndex(data_record, ats)
      adjusted == IF i = 0 THEN data_record
                  ELSE LET at_value == ToFloat(ATValueRaw(ats[i]))
                       IN Put(Put(data_record, AV, Minus(data_record[AD], at_value)),
                              AT, at_value)
  IN ApplyAV(adjusted, av_records)

\* the inner loop for one row that does not raise
ApplyAT(data_record, ats) ==
  LET i == ATIndex(data_record, ats)
  IN IF i = 0 THEN data_record
     ELSE LET at_value == ToFloat(ATValueRaw(ats[i]))
          IN Put(Put(data_record, AV, Minus(data_record[AD], at_value)), AT, at_value)

ATAdjustmentPass ==
  /\ pc = "filtered"
  /\ LET ok(i) == \A j \in 1..i : ~ATRaises(data[j], at_records)
     IN /\ data' = [i \in DOMAIN data |->
                      IF ok(i) THEN ApplyAT(data[i], at_records) ELSE data[i]]
        /\ IF ok(Len(data))
             THEN pc' = "at_applied" /\ Proceeds
             ELSE Aborts("at_pass", {})
  /\ UNCHANGED << cash_with_ncl, cp_master_fo, cp_master_cd, lookups,
                  sec_pledge_cp_lookup, av_records, at_records, extra_records_df,
                  extra_records_data, santom_df, generated, filtered, output,
                  inVars, outVars >>

----------------------------------------------------------------------------
(* SANTOM Merge Pass (lines 851-856 and _santom_file_working, 1151-1201) *)

\* float(cash_with_ncl or 0)
CashOrZero(cash) == IF cash = "" THEN Num(0) ELSE Str(cash)

\* the account type "P" branch is taken for this row
SantomIsP(row, columns) == G \in columns /\ row[G] = Str("P")

\* the record with the "P" formula applied to every account type
SantomRecord_AlwaysP(row, columns, cash, idx) ==
  LET record == [c \in columns \cup {ORIGIN} |->
                   IF c = ORIGIN THEN Origin("santom", idx) ELSE row[c]]
      balance == IF CanFloat(row[AD]) /\ CanFloat(CashOrZero(cash))
                   THEN Minus(ToFloat(row[AD]), ToFloat(CashOrZero(cash)))
                   ELSE Num(0)
  IN IF {AD, AG, AH} \subseteq columns
       THEN (AV :> balance) @@ (AW :> row[AG]) @@ (AX :> row[AH])
              @@ (AT :> Str(cash)) @@ record
       ELSE record

\* the "P" branch keeping the AD value when a number does not parse
SantomRecord_NoDefault(row, columns, cash, idx) ==
  LET record == [c \in columns \cup {ORIGIN} |->
                   IF c = ORIGIN THEN Origin("santom", idx) ELSE row[c]]
  IN IF SantomIsP(row, columns)
       THEN IF AD \in columns
              THEN LET balance ==
                         IF CanFloat(row[AD]) /\ CanFloat(CashOrZero(cash))
                           THEN Minus(ToFloat(row[AD]), ToFloat(CashOrZero(cash)))
                           ELSE row[AD]
                   IN (AV :> balance) @@ (AW :> row[AG]) @@ (AX :> row[AH])
                        @@ (AT :> Str(cash)) @@ record
              ELSE record
       ELSE LET r1 == IF AD \in columns THEN Put(record, AV, row[AD]) ELSE record
                r2 == IF AG \in columns THEN Put(r1, AW, row[AG]) ELSE r1
            IN IF AH \in columns THEN Put(r2, AX, row[AH]) ELSE r2

\* the record appended for one SANTOM row (lines 1155-1193)
SantomRecord(row, columns, cash, idx) ==
  LET record == [c \in columns \cup {ORIGIN} |->
                   IF c = ORIGIN THEN Origin("santom", idx) ELSE row[c]]
  IN IF SantomIsP(row, columns)
       THEN IF AD \in columns
              THEN LET balance ==
                         IF CanFloat(row[AD]) /\ CanFloat(CashOrZero(cash))
                           THEN Minus(ToFloat(row[AD]), ToFloat(CashOrZero(cash)))
                           ELSE Num(0)
                   IN (AV :> balance) @@ (AW :> row[AG]) @@ (AX :> row[AH])
                        @@ (AT :> Str(cash)) @@ record
              ELSE record
       ELSE LET r1 == IF AD \in columns THEN Put(record, AV, row[AD]) ELSE record
                r2 == IF AG \in columns THEN Put(r1, AW, row[AG]) ELSE r1
            IN IF AH \in columns THEN Put(r2, AX, row[AH]) ELSE r2

\* row[AG] / row[AH] of the "P" branch raise KeyError when the file lacks
\* the column; neither handler of the branch catches it
SantomRaises(row, columns) ==
  /\ SantomIsP(row, columns)
  /\ AD \in columns
  /\ ~({AG, AH} \subseteq columns)

\* lines 1195-1199 for one row
BackfillSentinels(row) ==
  LET az == Get(row, AZ, None)
      bl == Get(row, BL, None)
      r1 == IF ~Truthy(az) \/ IsNa(az) THEN Put(row, AZ, Str("NA")) ELSE row
  IN IF ~Truthy(bl) \/ IsNa(bl) THEN Put(r1, BL, Str("NA")) ELSE r1

\* the merge putting the SANTOM records in front of the rows of the list
santom_file_working_Prepend(rows, cash, santom) ==
  LET appended == [i \in DOMAIN santom.rows |->
                     SantomRecord(santom.rows[i], santom.columns, cash, i)] \o rows
  IN IF santom.rows = << >> THEN rows
     ELSE [i \in DOMAIN appended |-> BackfillSentinels(appended[i])]

\* _santom_file_working on a file all of whose rows are processed
santom_file_working(rows, cash, santom) ==
  LET appended == rows \o [i \in DOMAIN santom.rows |->
                             SantomRecord(santom.rows[i], santom.columns, cash, i)]
  IN IF santom.rows = << >> THEN rows
     ELSE [i \in DOMAIN appended |-> BackfillSentinels(appended[i])]

\* the SANTOM step when no file is supplied
SkipSantom ==
  /\ pc = "at_applied"
  /\ santom_df' = NoFile
  /\ pc' = "merged"
  /\ UNCHANGED << cash_with_ncl, cp_master_fo, cp_master_cd, lookups,
                  sec_pledge_cp_lookup, av_records, at_records, extra_records_df,
                  extra_records_data, generated, filtered, data, output, result,
                  inVars, outVars, errVars >>

\* the try of lines 1173-1178 raises ValueError or TypeError for this row:
\* float() rejects the AD value or the scalar
SantomParseFails(row, columns, cash) ==
  /\ SantomIsP(row, columns)
  /\ AD \in columns
  /\ ~(CanFloat(row[AD]) /\ CanFloat(CashOrZero(cash)))

\* the SANTOM step when a file is supplied
SantomMerge ==
  /\ pc = "at_applied"
  /\ \/ \E f \in SantomFiles :
          /\ santom_df' = f
          /\ IF \E i \in DOMAIN f.rows : SantomRaises(f.rows[i], f.columns)
               THEN /\ Aborts("santom_file", {"santom_file"})
                    /\ UNCHANGED data
               ELSE /\ pc' = "merged"
                    /\ data' = santom_file_working(data, cash_with_ncl, f)
                    /\ caught' =
                         IF \E i \in DOMAIN f.rows :
                              SantomParseFails(f.rows[i], f.columns, cash_with_ncl)
                           THEN caught \cup {"santom_parse"}
                           ELSE caught
                    /\ UNCHANGED << result, logVars, failed_at, read_fault >>
     \/ /\ \E fault \in ReadFaults : ReadFails("santom_file", fault)
        /\ UNCHANGED << santom_df, data >>
  /\ UNCHANGED << cash_with_ncl, cp_master_fo, cp_master_cd, lookups,
                  sec_pledge_cp_lookup, av_records, at_records, extra_records_df,
                  extra_records_data, generated, filtered, output, inVars, outVars >>

----------------------------------------------------------------------------
(* Output Writer (write_file, segregation.py lines 110-145) *)

\* a cell as to_csv writes it: a missing value (None, NaN) is written blank
Cell(v) == IF IsNa(v) THEN Str("") ELSE v

\* one row of the file: the columns of header, in that order; a column the
\* row lacks is filled with None
WriteRow(row, header) == [j \in DOMAIN header |-> Cell(Get(row, header[j], None))]

\* write_file(output_file, data, header)
write_file(rows, header) == [i \in DOMAIN rows |-> WriteRow(rows[i], header)]

\* the write placed before the SANTOM step
WriteOutput_BeforeSantom ==
  /\ pc = "at_applied"
  /\ report_file = ""
  /\ output' = write_file(data, segregation_headers)
  /\ report_file' = OutputFileName(form.cp_pan, formatted_date)
  /\ UNCHANGED << pc, cash_with_ncl, cp_master_fo, cp_master_cd, lookups,
                  sec_pledge_cp_lookup, av_records, at_records, extra_records_df,
                  extra_records_data, santom_df, generated, filtered, data, result,
                  inVars, csv_zip, archive, insert_calls, errVars >>

\* lines 858-860: the report file is written under its name
WriteOutput ==
  /\ pc = "merged"
  /\ output' = write_file(data, segregation_headers)
  /\ report_file' = OutputFileName(form.cp_pan, formatted_date)
  /\ pc' = "written"
  /\ UNCHANGED << cash_with_ncl, cp_master_fo, cp_master_cd, lookups,
                  sec_pledge_cp_lookup, av_records, at_records, extra_records_df,
                  extra_records_data, santom_df, generated, filtered, data, result,
                  inVars, csv_zip, archive, insert_calls, errVars >>

----------------------------------------------------------------------------
(* Zips and archival (lines 862-881 and _create_zip_and_save, 1203-1246) *)

\* the members _create_zip_and_save adds for the input files (lines 1215-1228)
ArchivedInputs ==
  { "cash_collateral_cds", "cash_collateral_fno", "daily_margin_nsecr",
    "daily_margin_nsefno", "x_cp_master", "f_cp_master",
    "collateral_valuation_cds", "collateral_valuation_fno", "sec_pledge" }

\* what may go wrong after the write, one thing per run: the zip of the
\* report alone, the zip of inputs and report, insert_report, os.remove
ArchiveFaults == {"none", "csv_zip", "zip", "insert", "remove"}

\* _create_zip_and_save without the removal of lines 1241-1246
create_zip_and_save_KeepsReport(fault, name) ==
  [ archive |-> IF fault = "zip" THEN {} ELSE ArchivedInputs \cup {name},
    inserted |-> IF fault = "zip" THEN 0 ELSE 1,
    raised |-> fault \in {"zip", "insert"},
    report_file |-> name ]

\* _create_zip_and_save: the members of the zip, the calls of
\* insert_report, whether it raised, and the report file left in the folder
create_zip_and_save(fault, name) ==
  [ archive |-> IF fault = "zip" THEN {} ELSE ArchivedInputs \cup {name},
    inserted |-> IF fault = "zip" THEN 0 ELSE 1,
    raised |-> fault \in {"zip", "insert"},
    report_file |-> IF fault \in {"zip", "insert", "remove"} THEN name ELSE "" ]

ArchiveReport ==
  /\ pc = "written"
  /\ \E fault \in ArchiveFaults :
       LET saved == create_zip_and_save(fault, report_file)
           swallowed == (IF fault = "csv_zip" THEN {"csv_zip"} ELSE {})
                          \cup (IF fault = "remove" THEN {"remove"} ELSE {})
       IN /\ csv_zip' = IF fault = "csv_zip" THEN {} ELSE {report_file}
          /\ archive' = saved.archive
          /\ insert_calls' = insert_calls + saved.inserted
          /\ report_file' = saved.report_file
          /\ IF saved.raised
               THEN Aborts("create_zip_and_save", swallowed)
               ELSE /\ pc' = "done"
                    /\ result' = "success"
                    /\ caught' = caught \cup swallowed
                    /\ UNCHANGED << logVars, failed_at, read_fault >>
  /\ UNCHANGED << cash_with_ncl, cp_master_fo, cp_master_cd, lookups,
                  sec_pledge_cp_lookup, av_records, at_records, extra_records_df,
                  extra_records_data, santom_df, generated, filtered, data, output,
                  inVars >>

----------------------------------------------------------------------------
(* The run *)

Next ==
  \/ ValidateInputs
  \/ ReadCPMasters
  \/ ReadLookups
  \/ ReadSecPledge
  \/ GenerateReportData
  \/ LoadMasterRecordsAndApplyAV
  \/ ReadExtraRecords
  \/ SegregationDataFilter
  \/ ATAdjustmentPass
  \/ SkipSantom
  \/ SantomMerge
  \/ WriteOutput
  \/ ArchiveReport

Spec == Init /\ [][Next]_vars

\* The run up to the pledge lookup, on pledge sheets with several rows
PledgeNext ==
  \/ ValidateInputs
  \/ ReadCPMasters
  \/ ReadLookups
  \/ ReadSecPledgeSheet

PledgeSpec == Init /\ [][PledgeNext]_vars

\* the run up to the lookup builders, on the wider lookup source files
LookupNext ==
  \/ ValidateInputs
  \/ ReadCPMasters
  \/ ReadLookupSheets

LookupSpec == Init /\ [][LookupNext]_vars

\* the run up to the extra records, on the wider override lists and
\* extra-records files
ExtrasNext ==
  \/ ValidateInputs
  \/ ReadCPMasters
  \/ ReadLookups
  \/ ReadSecPledge
  \/ GenerateReportData
  \/ LoadAVRuleRecords
  \/ ReadExtraSheets

\* a run on a valid form, without the scalar
ValidInit ==
  /\ Init
  /\ form = ValidForm
  /\ cash_with_ncl = ""

ExtrasSpec == ValidInit /\ [][ExtrasNext]_vars


----------------------------------------------------------------------------
(* Master-records editor (src/ui_components.py, SegregationReportPage) *)

\* the state of a run of the processor, which the UI steps leave alone
runVars ==
  << pc, cash_with_ncl, cp_master_fo, cp_master_cd, lookups,
     sec_pledge_cp_lookup, av_records, at_records, extra_records_df,
     extra_records_data, santom_df, generated, filtered, data, output, result,
     form, store, sec_pledge_df, lookup_df, outVars, errVars >>

TableTypes == {"AV_Records", "AT_Records"}

\* what the operator may select or type into the form
AccountTypes == {"P", "C"}
Segments == {"FO", "CD"}
TypedCodes == {"X", " X", "Y", ""}
TypedValues == {"7", ""}

\* the column that keys a record next to the segment, and the value key
FirstField(table_type) == IF table_type = "AV_Records" THEN G ELSE D
ValueField(table_type) == IF table_type = "AV_Records" THEN "av_value" ELSE "at_value"

\* choices of the first field: the Account Type combobox or the CP Code entry
FirstInputs(table_type) == IF table_type = "AV_Records" THEN AccountTypes ELSE TypedCodes

\* the record built by _add_record_to_table (lines 1226-1256)
EditorRecord(table_type, id, first, segment, value) ==
  ("id" :> Num(id)) @@ (FirstField(table_type) :> Str(first)) @@ (H :> Str(segment))
    @@ (ValueField(table_type) :> Str(value)) @@ ("table_type" :> Str(table_type))

\* the row of the table for a record (lines 1148-1160)
TreeValues(table_type, record) ==
  << Get(record, FirstField(table_type), Str("")), Get(record, H, Str("")),
     Get(record, ValueField(table_type), Str("")) >>

\* a duplicate test that looks at the segment only when the first field differs
check_duplicate_record_Loose(first, segment, table_type, exclude_id) ==
  \E i \in DOMAIN master_records_data :
    LET record == master_records_data[i]
    IN /\ ~(exclude_id # None /\ Get(record, "id", None) = exclude_id)
       /\ Get(record, FirstField(table_type), None) = Str(first)
       /\ Get(record, H, None) = Str(segment)
       /\ Get(record, FirstField(table_type), None) # Str("C")

\* _check_duplicate_record (lines 1271-1288)
check_duplicate_record(first, segment, table_type, exclude_id) ==
  \E i \in DOMAIN master_records_data :
    LET record == master_records_data[i]
    IN /\ ~(exclude_id # None /\ Get(record, "id", None) = exclude_id)
       /\ Get(record, FirstField(table_type), None) = Str(first)
       /\ Get(record, H, None) = Str(segment)

\* the worker thread of a run is executing
WorkerAlive == process_thread \in {"started", "store_read"}

\* _save_records_to_json (lines 1166-1186): the lists of the file are read,
\* the list of the selected table type replaced, and the file opened for
\* writing, which empties it until json.dump has written it
save_records_to_json(records) ==
  /\ json_file' =
       [ exists |-> TRUE, partial |-> TRUE,
         AV_Records |-> IF table_type_var = "AV_Records" THEN records
                        ELSE json_file.AV_Records,
         AT_Records |-> IF table_type_var = "AT_Records" THEN records
                        ELSE json_file.AT_Records ]
  /\ wrote_in_run' = (wrote_in_run \/ WorkerAlive)

\* json.dump and the close of the file
FinishSave ==
  /\ json_file.partial
  /\ json_file' = [json_file EXCEPT !.partial = FALSE]
  /\ UNCHANGED << table_type_var, master_records_data, records_tree,
                  selected_record_id, process_thread, grab, focus, store_seen,
                  wrote_in_run, last_op >>
  /\ UNCHANGED runVars

\* an add or update that ends with a warning box, for a blank field or
\* for a duplicate
Rejected(op, duplicate) ==
  /\ last_op' = [op |-> op, rejected |-> TRUE, duplicate |-> duplicate]
  /\ UNCHANGED << table_type_var, master_records_data, records_tree,
                  selected_record_id, json_file, wrote_in_run >>

\* _add_record_to_table (lines 1195-1269)
add_record_to_table(first_typed, segment, value_typed) ==
  LET value == Strip(value_typed)
      first == IF table_type_var = "AV_Records" THEN first_typed ELSE Strip(first_typed)
  IN IF \/ value = ""
        \/ first = ""
        \/ check_duplicate_record(first, segment, table_type_var, None)
       THEN Rejected("add", value # "" /\ first # "")
       ELSE LET record == EditorRecord(table_type_var, Len(master_records_data),
                                       first, segment, value)
            IN /\ Len(master_records_data) < MaxRecords
               /\ records_tree' = Append(records_tree, TreeValues(table_type_var, record))
               /\ master_records_data' = Append(master_records_data, record)
               /\ save_records_to_json(master_records_data')
               /\ last_op' = [op |-> "add", rejected |-> FALSE, duplicate |-> FALSE]
               /\ UNCHANGED << table_type_var, selected_record_id >>

\* _update_record (lines 1320-1386), which ends with _cancel_update
update_record(first_typed, segment, value_typed) ==
  LET value == Strip(value_typed)
      first == IF table_type_var = "AV_Records" THEN first_typed ELSE Strip(first_typed)
      k == selected_record_id + 1
      current_record_id == IF k \in DOMAIN master_records_data
                             THEN Get(master_records_data[k], "id", None) ELSE None
  IN /\ selected_record_id # NoSelection
     /\ IF \/ value = ""
           \/ first = ""
           \/ check_duplicate_record(first, segment, table_type_var, current_record_id)
          THEN Rejected("update", value # "" /\ first # "")
          ELSE LET updated ==
                     Put(Put(Put(master_records_data[k], FirstField(table_type_var), Str(first)),
                             H, Str(segment)),
                         ValueField(table_type_var), Str(value))
               IN /\ k \in DOMAIN master_records_data
                  /\ master_records_data' = [master_records_data EXCEPT ![k] = updated]
                  /\ records_tree' = [records_tree EXCEPT ![k] = TreeValues(table_type_var, updated)]
                  /\ save_records_to_json(master_records_data')
                  /\ selected_record_id' = NoSelection
                  /\ last_op' = [op |-> "update", rejected |-> FALSE, duplicate |-> FALSE]
                  /\ UNCHANGED table_type_var

\* the UI thread is between two events
UIFree == ~json_file.partial

\* a click reaches the form: the loading dialog does not hold the grab
PointerFree == UIFree /\ ~grab

\* a key reaches the value entry: no grab, or the entry kept the focus
KeyFree == UIFree /\ (~grab \/ focus = "av_value_entry")

\* the Add Record button, shown while no record is selected
ClickAdd ==
  /\ PointerFree
  /\ selected_record_id = NoSelection
  /\ \E first \in FirstInputs(table_type_var), segment \in Segments, value \in TypedValues :
       add_record_to_table(first, segment, value)
  /\ UNCHANGED << process_thread, grab, focus, store_seen >>
  /\ UNCHANGED runVars

\* the Update Record button, shown while a record is selected
ClickUpdate ==
  /\ PointerFree
  /\ \E first \in FirstInputs(table_type_var), segment \in Segments, value \in TypedValues :
       update_record(first, segment, value)
  /\ UNCHANGED << process_thread, grab, focus, store_seen >>
  /\ UNCHANGED runVars

\* Return in the value entry: _add_or_update_record (lines 1016, 1188-1193)
PressReturn ==
  /\ KeyFree
  /\ \E first \in FirstInputs(table_type_var), segment \in Segments, value \in TypedValues :
       IF selected_record_id # NoSelection
         THEN update_record(first, segment, value)
         ELSE add_record_to_table(first, segment, value)
  /\ UNCHANGED << process_thread, grab, focus, store_seen >>
  /\ UNCHANGED runVars

\* a click on a row of the table: _on_record_select (lines 1290-1318)
SelectRecord ==
  /\ PointerFree
  /\ \E k \in DOMAIN records_tree : selected_record_id' = k - 1
  /\ UNCHANGED << table_type_var, master_records_data, records_tree, json_file,
                  process_thread, grab, focus, store_seen, wrote_in_run, last_op >>
  /\ UNCHANGED runVars

\* the Cancel button: _cancel_update (lines 1388-1399)
CancelUpdate ==
  /\ PointerFree
  /\ selected_record_id # NoSelection
  /\ selected_record_id' = NoSelection
  /\ UNCHANGED << table_type_var, master_records_data, records_tree, json_file,
                  process_thread, grab, focus, store_seen, wrote_in_run, last_op >>
  /\ UNCHANGED runVars

\* the list without its k-th record, the ids renumbered from 0
WithoutRecord(records, k) ==
  LET rest == SubSeq(records, 1, k - 1) \o SubSeq(records, k + 1, Len(records))
  IN [i \in DOMAIN rest |-> Put(rest[i], "id", Num(i - 1))]

\* Delete Selected, confirmed: _delete_selected_record (lines 1401-1428)
DeleteSelectedRecord ==
  /\ PointerFree
  /\ selected_record_id # NoSelection
  /\ LET k == selected_record_id + 1
     IN /\ records_tree' = SubSeq(records_tree, 1, k - 1)
                             \o SubSeq(records_tree, k + 1, Len(records_tree))
        /\ master_records_data' =
             IF k \in DOMAIN master_records_data
               THEN WithoutRecord(master_records_data, k) ELSE master_records_data
  /\ save_records_to_json(master_records_data')
  /\ selected_record_id' = NoSelection
  /\ UNCHANGED << table_type_var, process_thread, grab, focus, store_seen, last_op >>
  /\ UNCHANGED runVars

\* Clear All, confirmed: _clear_all_records (lines 1430-1449)
ClearAllRecords ==
  /\ PointerFree
  /\ master_records_data # << >>
  /\ records_tree' = << >>
  /\ master_records_data' = << >>
  /\ save_records_to_json(<< >>)
  /\ selected_record_id' = NoSelection
  /\ UNCHANGED << table_type_var, process_thread, grab, focus, store_seen, last_op >>
  /\ UNCHANGED runVars

\* a choice in the Table Type combobox: _on_table_type_change and
\* _load_records_from_json (lines 1109-1164)
TableTypeChange ==
  /\ PointerFree
  /\ \E table_type \in TableTypes :
       /\ table_type_var' = table_type
       /\ IF json_file.exists
            THEN /\ master_records_data' = json_file[table_type]
                 /\ records_tree' = [i \in DOMAIN master_records_data' |->
                                       TreeValues(table_type, master_records_data'[i])]
            ELSE /\ records_tree' = << >>
                 /\ UNCHANGED master_records_data
  /\ selected_record_id' = NoSelection
  /\ UNCHANGED << json_file, process_thread, grab, focus, store_seen, wrote_in_run,
                  last_op >>
  /\ UNCHANGED runVars

----------------------------------------------------------------------------
(* A run started from the UI (src/pcm_application.py, _handle_process) *)

\* where the keys go once the loading dialog is mapped: LoadingSpinner
\* (src/utils.py, lines 15-23) sets the grab and never asks for the focus,
\* so the window system decides
FocusAfterMap == {"loading_window", "av_value_entry"}

\* the Generate button: show_loading, then the worker thread is started
StartProcess ==
  /\ PointerFree
  /\ process_thread = "idle"
  /\ process_thread' = "started"
  /\ grab' = TRUE
  /\ focus' \in FocusAfterMap
  /\ store_seen' = ""
  /\ wrote_in_run' = FALSE
  /\ UNCHANGED << table_type_var, master_records_data, records_tree,
                  selected_record_id, json_file, last_op >>
  /\ UNCHANGED runVars

\* the worker reaches _get_master_records (lines 1263-1277): no file, a
\* file json.load accepts, or a file a save has emptied and not yet written
WorkerReadsStore ==
  /\ process_thread = "started"
  /\ process_thread' = "store_read"
  /\ store_seen' = IF ~json_file.exists THEN "absent"
                   ELSE IF json_file.partial THEN "truncated"
                   ELSE "whole"
  /\ UNCHANGED << table_type_var, master_records_data, records_tree,
                  selected_record_id, json_file, grab, focus, wrote_in_run, last_op >>
  /\ UNCHANGED runVars

\* process() returns and the thread ends
WorkerEnds ==
  /\ process_thread = "store_read"
  /\ process_thread' = "ended"
  /\ UNCHANGED << table_type_var, master_records_data, records_tree,
                  selected_record_id, json_file, grab, focus, store_seen,
                  wrote_in_run, last_op >>
  /\ UNCHANGED runVars

\* the polling loop sees the thread is dead and closes the loading dialog
HideLoading ==
  /\ UIFree
  /\ process_thread = "ended"
  /\ process_thread' = "idle"
  /\ grab' = FALSE
  /\ focus' = "av_value_entry"
  /\ UNCHANGED << table_type_var, master_records_data, records_tree,
                  selected_record_id, json_file, store_seen, wrote_in_run, last_op >>
  /\ UNCHANGED runVars

EditorNext ==
  \/ ClickAdd
  \/ ClickUpdate
  \/ PressReturn
  \/ SelectRecord
  \/ CancelUpdate
  \/ DeleteSelectedRecord
  \/ ClearAllRecords
  \/ TableTypeChange
  \/ FinishSave
  \/ StartProcess
  \/ WorkerReadsStore
  \/ WorkerEnds
  \/ HideLoading

\* the editor and the runs started from the page, from an empty store
EditorSpec == ValidInit /\ [][EditorNext]_vars

----------------------------------------------------------------------------
(* Vocabulary of the properties *)

\* the row list is final: the SANTOM step is over (the file may be written)
RunComplete == pc \in {"merged", "written", "done"}

\* the row list has been through the normalizer
Normalized == pc \in {"filtered", "at_applied", "merged", "written", "done"}

RowKind(r) == r[ORIGIN].s
RowIdx(r) == r[ORIGIN].n
IsGenerated(r) == RowKind(r) \in {"FO", "CD"}

\* the text of a string cell of a row, "" when the row lacks the column
Text(r, c) == IF c \in DOMAIN r /\ IsStr(r[c]) THEN r[c].s ELSE ""

\* row r has column c and holds v in it
Holds(r, c, v) == c \in DOMAIN r /\ r[c] = v

\* positions of the rows of the list with this segment and CP code
RowsFor(seg, cp) == {j \in DOMAIN data : Text(data[j], H) = seg /\ Text(data[j], D) = cp}

\* positions of the generated rows made from entry i of a master list
RowsFrom(seg, i) == {j \in DOMAIN data : data[j][ORIGIN] = Origin(seg, i)}

\* the master list of a segment
MasterOf(seg) == IF seg = "FO" THEN cp_master_fo ELSE cp_master_cd

----------------------------------------------------------------------------
(* C1: row completeness *)

\* C1 as stated: in the final output every (CP code, PAN) pair of the FO
\* master list has exactly one row with segment "FO" and that CP code, and
\* every pair of the CD master list exactly one row with segment "CD".
C1_ExactlyOneRowPerPair ==
  RunComplete =>
    \A seg \in {"FO", "CD"} : \A i \in DOMAIN MasterOf(seg) :
      Cardinality(RowsFor(seg, MasterOf(seg)[i][1])) = 1

\* C1 as amended: every entry (position) of a master list has exactly one
\* generated row made from it in the final output, carrying the segment of
\* the list and the CP code and PAN of the entry; a CP code listed n times
\* therefore has n generated rows, and rows of the extra-records file with
\* the same CP code and segment come on top of them.
C1_OneGeneratedRowPerEntry ==
  RunComplete =>
    \A seg \in {"FO", "CD"} :
      /\ \A i \in DOMAIN MasterOf(seg) :
           /\ Cardinality(RowsFrom(seg, i)) = 1
           /\ \A j \in RowsFrom(seg, i) :
                /\ Text(data[j], H) = seg
                /\ Text(data[j], D) = MasterOf(seg)[i][1]
                /\ Text(data[j], E) = MasterOf(seg)[i][2]
      /\ Cardinality({j \in DOMAIN data : RowKind(data[j]) = seg}) = Len(MasterOf(seg))
      /\ \A i \in DOMAIN MasterOf(seg) :
           Cardinality(RowsFor(seg, MasterOf(seg)[i][1]))
             >= Cardinality({k \in DOMAIN MasterOf(seg) :
                               MasterOf(seg)[k][1] = MasterOf(seg)[i][1]})

\* a finished run whose FO list names code X twice and whose extra-records
\* file has one more FO row of X: three rows for the pair
C1_Witness ==
  /\ pc = "written"
  /\ Len(cp_master_fo) = 2
  /\ cp_master_fo[1][1] = cp_master_fo[2][1]
  /\ Len(extra_records_data) = 1
  /\ Cardinality(RowsFor("FO", "X")) = 3

----------------------------------------------------------------------------
(* C2: AT Adjustment Pass *)

\* positions of the AT records with the CP code and segment of row r
ATKeys(r) ==
  {k \in DOMAIN at_records :
     /\ Text(at_records[k], D) = Text(r, D)
     /\ Text(at_records[k], H) = Text(r, H)}

\* the least element of a non-empty set of positions
Least(S) == CHOOSE k \in S : \A m \in S : k <= m

\* the number an at_value text stands for
ATNumber(k) == NumericStrings[at_records[k]["at_value"].s]

\* C2: once the AT pass is over, every row of the sequence it ran on for
\* which some AT record has the row's (CP code, segment) has AV = AD - at_value
\* and AT = at_value, at_value being that of the first such record in list
\* order.
C2_ATAdjustment ==
  pc \in {"at_applied", "merged", "written", "done"} =>
    \A j \in DOMAIN data :
      (RowKind(data[j]) # "santom" /\ ATKeys(data[j]) # {}) =>
        /\ IsNum(data[j][AD])
        /\ data[j][AV] = Num(data[j][AD].n - ATNumber(Least(ATKeys(data[j]))))
        /\ data[j][AT] = Num(ATNumber(Least(ATKeys(data[j]))))

\* two AT records with the same key and different values, and a row with a
\* non-zero AD that they match
C2_Witness ==
  /\ pc = "at_applied"
  /\ Len(at_records) = 2
  /\ at_records[1]["at_value"] # at_records[2]["at_value"]
  /\ \E j \in DOMAIN data :
       /\ ATKeys(data[j]) = {1, 2}
       /\ data[j][AD] = Num(200)
       /\ data[j][AV] = Num(200 - ATNumber(1))

----------------------------------------------------------------------------
(* C3: AV override scope *)

\* positions of the AV records with the account type and segment of row r
AVKeys(r) ==
  {k \in DOMAIN av_records :
     /\ Text(av_records[k], G) = Text(r, G)
     /\ Text(av_records[k], H) = Text(r, H)}

\* C3: after the AV loop every generated row whose (account type, segment)
\* is that of some AV record has its AV column equal to the number av_value
\* of the first such record, whatever the row's CP code.
C3_AVScope ==
  pc = "av_applied" =>
    \A j \in DOMAIN data :
      AVKeys(data[j]) # {} =>
        data[j][AV] = Num(NumericStrings[av_records[Least(AVKeys(data[j]))]["av_value"].s])

----------------------------------------------------------------------------
(* C4: pledge segment gating *)

\* the three pledge columns of row r all hold v
PledgeColumnsAre(r, v) == r[BB] = v /\ r[BD] = v /\ r[BF] = v

\* C4: a pledge lookup entry of a CP code reaches BB, BD and BF of the FO row
\* of that code only: before the normalizer a CD row has none of the three
\* columns, and from the normalizer on they are 0 on every CD row, while the
\* FO row of a code with an entry holds the entry's rounded value.
C4_PledgeGating ==
  /\ pc \in {"generated", "av_applied", "extras_read"} =>
       \A j \in DOMAIN data :
         /\ RowKind(data[j]) = "CD" => DOMAIN data[j] \cap {BB, BD, BF} = {}
         /\ (RowKind(data[j]) = "FO" /\ Text(data[j], D) \in DOMAIN sec_pledge_cp_lookup) =>
              PledgeColumnsAre(data[j], sec_pledge_cp_lookup[Text(data[j], D)]["post_haircut"])
  /\ Normalized =>
       \A j \in DOMAIN data :
         /\ RowKind(data[j]) = "CD" => PledgeColumnsAre(data[j], Num(0))
         /\ (RowKind(data[j]) = "FO" /\ Text(data[j], D) \in DOMAIN sec_pledge_cp_lookup) =>
              PledgeColumnsAre(data[j], sec_pledge_cp_lookup[Text(data[j], D)]["post_haircut"])
         /\ (RowKind(data[j]) = "FO" /\ Text(data[j], D) \notin DOMAIN sec_pledge_cp_lookup) =>
              PledgeColumnsAre(data[j], Num(0))

\* a finished run in which a CP code with a non-zero pledge entry is in both
\* master lists
C4_Witness ==
  /\ pc = "written"
  /\ "X" \in DOMAIN sec_pledge_cp_lookup
  /\ sec_pledge_cp_lookup["X"]["post_haircut"] = Num(10010)
  /\ \E j, k \in DOMAIN data :
       /\ RowKind(data[j]) = "FO" /\ Text(data[j], D) = "X"
       /\ RowKind(data[k]) = "CD" /\ Text(data[k], D) = "X"
       /\ data[j][BB] = Num(10010)
       /\ data[k][BB] = Num(0)

----------------------------------------------------------------------------
(* C5: column population and duplication *)

\* the lookups of a segment
CollateralOf(seg) ==
  IF seg = "FO" THEN lookups.fo_collateral_lookup ELSE lookups.cd_collateral_lookup
MarginOf(seg) ==
  IF seg = "FO" THEN lookups.fo_daily_margin_lookup ELSE lookups.cd_daily_margin_lookup
ValuationOf(seg) ==
  IF seg = "FO" THEN lookups.fo_collateral_valuation_lookup
  ELSE lookups.cd_collateral_valuation_lookup

\* the value a lookup of a segment holds for a code, 0 when it has none
LookedUp(lk, cp) == IF cp \in DOMAIN lk THEN lk[cp] ELSE Num(0)
ValuedAt(seg, cp, field) ==
  IF cp \in DOMAIN ValuationOf(seg) THEN ValuationOf(seg)[cp][field] ELSE Num(0)

\* C5: a generated row of segment S and CP code c that no AV record of its
\* segment touches has J = collateral_S(c), K = L = AD = AV = margin_S(c),
\* O = AG = AW = CashEquivalent_S(c), P = AH = AX = NonCash_S(c), each 0 when
\* c is absent from the lookup; the lookups of the other segment play no part.
C5_ColumnPopulation ==
  pc \in {"generated", "av_applied", "extras_read"} =>
    /\ Len(data) = Len(cp_master_fo) + Len(cp_master_cd)
    /\ \A j \in DOMAIN data :
         LET r == data[j]
             seg == Text(r, H)
             cp == Text(r, D)
         IN (\A k \in DOMAIN av_records : Text(av_records[k], H) # seg) =>
              /\ seg \in {"FO", "CD"}
              /\ r[J] = LookedUp(CollateralOf(seg), cp)
              /\ r[K] = LookedUp(MarginOf(seg), cp)
              /\ r[L] = r[K] /\ r[AD] = r[K] /\ r[AV] = r[K]
              /\ r[O] = ValuedAt(seg, cp, "CashEquivalent")
              /\ r[AG] = r[O] /\ r[AW] = r[O]
              /\ r[P] = ValuedAt(seg, cp, "NonCash")
              /\ r[AH] = r[P] /\ r[AX] = r[P]

\* the end-to-end scenario of the specification, with a second code that no
\* lookup knows
C5_Witness ==
  /\ pc = "generated"
  /\ Len(data) = 2
  /\ Text(data[1], H) = "FO" /\ Text(data[1], D) = "X"
  /\ data[1][J] = Num(500) /\ data[1][AV] = Num(200)
  /\ data[1][AW] = Num(50) /\ data[1][AX] = Num(10)
  /\ Text(data[2], D) = "Y" /\ data[2][J] = Num(0) /\ data[2][AV] = Num(0)

----------------------------------------------------------------------------
(* C6, C7: order of the normalizer's result *)

\* the row was all-zero when the normalizer partitioned the rows: every
\* segregation column other than the two sentinels is 0 in the row the
\* normalizer returned (the sentinels are overwritten after the partition
\* and are never populated on a generated row before it)
ZeroValue(v) == v = Num(0) \/ v = Str("0")
ZeroRow(r) == \A c \in Range(SegCols) \ {AZ, BL} : ZeroValue(r[c])

\* the row of the normalizer's result that has the origin of row r
AtFilter(r) == filtered[CHOOSE k \in DOMAIN filtered : filtered[k][ORIGIN] = r[ORIGIN]]

\* r is row i of the extra records, with its sentinels set
IsExtra(r, i) ==
  /\ r[ORIGIN] = Origin("extra", i)
  /\ DOMAIN r = DOMAIN extra_records_data[i] \cup {AZ, BL}
  /\ \A c \in DOMAIN extra_records_data[i] \ {AZ, BL} : r[c] = extra_records_data[i][c]

----------------------------------------------------------------------------
(* C8: sentinel columns *)

\* C8: in the final output every row, generated, extra or SANTOM, has AZ and
\* BL equal to the string "NA".
C8_SentinelsAreNA ==
  RunComplete =>
    \A j \in DOMAIN data :
      /\ AZ \in DOMAIN data[j] /\ data[j][AZ] = Str("NA")
      /\ BL \in DOMAIN data[j] /\ data[j][BL] = Str("NA")

----------------------------------------------------------------------------
(* C9: column registry *)

\* position of a column in segregation_headers
ColumnIndex(c) == CHOOSE j \in DOMAIN segregation_headers : segregation_headers[j] = c

\* C9: every row of the written file has exactly the columns of
\* segregation_headers, and no numeric segregation column of any row
\* (extra and SANTOM rows included) is written blank: a column without a
\* value is written as 0.
C9_NoBlankNumericCell ==
  pc = "written" =>
    /\ Len(output) = Len(data)
    /\ \A i \in DOMAIN output :
         /\ Len(output[i]) = Len(segregation_headers)
         /\ \A c \in Range(SegCols) \ {AZ, BL} : output[i][ColumnIndex(c)] # Str("")

----------------------------------------------------------------------------
(* C10: SANTOM column mapping *)

\* the row of the final list appended for row i of the SANTOM file
SantomOut(i) == data[Len(data) - Len(santom_df.rows) + i]

\* the number the scalar stands for in the balance: blank counts as 0
CashNumber == IF cash_with_ncl = "" THEN 0 ELSE NumericStrings[cash_with_ncl]

\* the scalar and the AD cell of a SANTOM row are numbers
CashParses == cash_with_ncl = "" \/ cash_with_ncl \in DOMAIN NumericStrings

\* C10: the record appended for a SANTOM row carries the source columns
\* (AZ and BL apart, which the backfill may set) and: for account type "P",
\* AV = source AD - cash_with_ncl, AT = cash_with_ncl, AW = source AG,
\* AX = source AH (numeric AD and scalar); for any other account type,
\* AV = source AD, AW = source AG, AX = source AH and AT as in the source.
C10_SantomMapping ==
  (RunComplete /\ santom_df # NoFile) =>
    \A i \in DOMAIN santom_df.rows :
      LET src == santom_df.rows[i]
          cols == santom_df.columns
          rec == SantomOut(i)
      IN /\ rec[ORIGIN] = Origin("santom", i)
         /\ \A c \in cols \ {AV, AW, AX, AT, AZ, BL} : Holds(rec, c, src[c])
         /\ (Text(src, G) = "P" /\ IsNum(src[AD]) /\ CashParses) =>
              /\ Holds(rec, AV, Num(src[AD].n - CashNumber))
              /\ Holds(rec, AT, Str(cash_with_ncl))
              /\ Holds(rec, AW, src[AG])
              /\ Holds(rec, AX, src[AH])
         /\ Text(src, G) # "P" =>
              /\ Holds(rec, AV, src[AD])
              /\ IF AG \in cols THEN Holds(rec, AW, src[AG]) ELSE AW \notin DOMAIN rec
              /\ IF AH \in cols THEN Holds(rec, AX, src[AH]) ELSE AX \notin DOMAIN rec
              /\ IF AT \in cols THEN Holds(rec, AT, src[AT]) ELSE AT \notin DOMAIN rec

\* a finished run with a "P" row and the scalar 10, and one with a "C" row
C10_Witness ==
  /\ pc = "written"
  /\ cash_with_ncl = "10"
  /\ Len(santom_df.rows) = 1
  /\ Text(santom_df.rows[1], G) = "P"
  /\ santom_df.rows[1][AD] = Num(100)
  /\ SantomOut(1)[AV] = Num(90)
  /\ SantomOut(1)[AT] = Str("10")
  /\ SantomOut(1)[AW] = Num(60)
  /\ SantomOut(1)[AX] = Num(20)

----------------------------------------------------------------------------
(* C11: position of the SANTOM rows *)

\* row r2 is row r1 but for the sentinel columns the backfill may fill
SameButSentinels(r1, r2) ==
  /\ DOMAIN r1 \subseteq DOMAIN r2
  /\ DOMAIN r2 \subseteq DOMAIN r1 \cup {AZ, BL}
  /\ \A c \in DOMAIN r1 \ {AZ, BL} : r2[c] = r1[c]

----------------------------------------------------------------------------
(* C12: recovery from a malformed number in the SANTOM step *)

\* C12: when the SANTOM step has read a file that carries the columns the
\* "P" branch reads (AD, AG, AH), the step completes and the run goes on to
\* the write whatever the scalar and the AD values are; and in every list
\* the step produces, the record of a "P" row whose AD value or whose scalar
\* does not parse as a number has AV = 0.
C12_MalformedNumberGivesZero ==
  [][ (pc = "at_applied" /\ santom_df' # NoFile) =>
        /\ {AD, AG, AH} \subseteq santom_df'.columns =>
             (pc' = "merged" /\ result' = "running" /\ log_calls' = log_calls)
        /\ pc' = "merged" =>
             \A i \in DOMAIN santom_df'.rows :
               SantomParseFails(santom_df'.rows[i], santom_df'.columns, cash_with_ncl) =>
                 Holds(data'[Len(data) + i], AV, Num(0))
    ]_vars

\* a successful run with the scalar "abc" and a "P" row whose AD is 100:
\* the record has AV = 0 and carries the scalar as typed
C12_Witness ==
  /\ pc = "done"
  /\ result = "success"
  /\ cash_with_ncl = "abc"
  /\ Len(santom_df.rows) = 1
  /\ santom_df.rows[1][G] = Str("P")
  /\ santom_df.rows[1][AD] = Num(100)
  /\ Holds(data[Len(data)], AV, Num(0))
  /\ Holds(data[Len(data)], AT, Str("abc"))

----------------------------------------------------------------------------
(* C13: master_records.json absent *)

\* the run is past the loading of the master records
Loaded ==
  \/ pc \in {"av_applied", "extras_read", "filtered", "at_applied", "merged",
              "written", "done"}
  \/ pc = "failed" /\ failed_at \in {"extra_records", "at_pass", "santom_file",
                                       "create_zip_and_save"}

\* C13: when master_records.json does not exist, loading gives an empty AV
\* list and an empty AT list and no exception is caught; the run goes on and
\* no row is overridden: the AV loop leaves the generated rows as they were,
\* an extra record keeps the AV of its file, and the AT pass, which cannot
\* fail, leaves the normalized rows as they were.
C13_AbsentStoreNoOverride ==
  (store = "absent" /\ Loaded) =>
    /\ av_records = << >>
    /\ at_records = << >>
    /\ "master_records" \notin caught
    /\ failed_at # "at_pass"
    /\ pc = "av_applied" => data = generated
    /\ pc \in {"extras_read", "filtered", "at_applied", "merged", "written", "done"} =>
         \A i \in DOMAIN extra_records_data :
           Get(extra_records_data[i], AV, None) = Get(extra_records_df.rows[i], AV, None)
    /\ Normalized =>
         /\ filtered = segregation_data_filter(generated, SegCols, extra_records_data)
         /\ \A i \in DOMAIN filtered : SameButSentinels(filtered[i], data[i])

\* a successful run without the store, on a master list with code X, whose
\* FO row an AT record of the candidates would have matched
C13_Witness ==
  /\ pc = "done"
  /\ result = "success"
  /\ store = "absent"
  /\ \E j \in DOMAIN data :
       /\ RowKind(data[j]) = "FO" /\ Text(data[j], D) = "X"
       /\ data[j][AD] = Num(200)
       /\ data[j][AV] = Num(200)
       /\ data[j][AT] = Num(0)

----------------------------------------------------------------------------
(* C14: no partial output *)

\* the steps before the write in which a run can fail
StepsBeforeWrite == InputFiles \cup {"at_pass"}

\* something of the report is in the output folder
ReportTouched == report_file # "" \/ output # << >> \/ csv_zip # {} \/ archive # {}

\* C14: the report file is written in one step, taken only when the SANTOM
\* step is over, and what is written is the whole row list; nothing of the
\* report exists before that step, and a run that fails in a reader, a
\* lookup builder, the AT pass or the SANTOM step has returned a failure
\* indicator and has written no report file.
C14_NoPartialOutput ==
  [][ /\ (~ReportTouched /\ ReportTouched') =>
           /\ pc = "merged"
           /\ pc' = "written"
           /\ output' = write_file(data, segregation_headers)
           /\ Len(output') = Len(data)
      /\ ReportTouched' =>
           \/ pc' \in {"written", "done"}
           \/ pc' = "failed" /\ failed_at' = "create_zip_and_save"
      /\ (pc' = "failed" /\ failed_at' \in StepsBeforeWrite) =>
           /\ result' \in {"None", "PERMISSION_ERROR_HANDLED"}
           /\ ~ReportTouched'
    ]_vars

\* a run that fails in the SANTOM step after the AT pass went through
C14_Witness ==
  /\ pc = "failed"
  /\ failed_at = "santom_file"
  /\ result = "None"
  /\ Len(data) >= 2
  /\ Len(at_records) >= 1
  /\ report_file = ""

----------------------------------------------------------------------------
(* C15: the produced file *)

\* the name the report must have for the PAN and the date of the model
ExpectedReportName == "CMPAN0000A_03112026_01.csv"

\* the written rows are one per generated, extra and SANTOM record
OneRowPerRecord ==
  Len(output) = Len(cp_master_fo) + Len(cp_master_cd)
                  + Len(extra_records_df.rows) + Len(santom_df.rows)

\* C15 as stated: a run that has returned success leaves in the output
\* folder the report file {PAN}_{ddmmyyyy}_01.csv, holding one row per
\* generated, extra and SANTOM record.
C15_ReportLeftInFolder ==
  result = "success" =>
    /\ report_file = ExpectedReportName
    /\ OneRowPerRecord

\* C15 as amended: the run writes the report under that name with one row
\* per generated, extra and SANTOM record, and a run that returns success has
\* put it under that name into the archive zip; it then removes the report
\* file from the output folder, so that on return the file is there only
\* when the removal failed.
C15_ReportWrittenArchivedRemoved ==
  /\ pc = "written" => (report_file = ExpectedReportName /\ OneRowPerRecord)
  /\ result = "success" =>
       /\ OneRowPerRecord
       /\ ExpectedReportName \in archive
       /\ report_file = IF "remove" \in caught THEN ExpectedReportName ELSE ""

\* a successful run with a generated, an extra and a SANTOM record, after
\* which the folder no longer holds the report file
C15_Witness ==
  /\ result = "success"
  /\ Len(output) = 3
  /\ Len(extra_records_df.rows) = 1
  /\ Len(santom_df.rows) = 1
  /\ ExpectedReportName \in archive
  /\ report_file = ""

----------------------------------------------------------------------------
(* C16: archival ordering *)

\* the input files of the run: those of the form, and the SANTOM file when
\* one was supplied
InputsOfRun ==
  IF santom_df = NoFile THEN InputFiles \ {"santom_file"} ELSE InputFiles

\* C16: insert_report is called at most once, and only when the report file
\* has been written and is in the zip together with all the input files of
\* the run; a run returns success only after that call; a run that failed
\* before the write has not called it.
C16_ArchivalAfterBundle ==
  /\ insert_calls <= 1
  /\ insert_calls = 1 =>
       /\ output = write_file(data, segregation_headers)
       /\ ExpectedReportName \in archive
       /\ InputsOfRun \subseteq archive
  /\ result = "success" => insert_calls = 1
  /\ (pc = "failed" /\ failed_at \in StepsBeforeWrite) => insert_calls = 0

----------------------------------------------------------------------------
(* C17: error reporting *)

\* the run has ended
RunEnded == pc \in {"done", "failed"}

\* C17: when a run has ended in which some handler caught an exception,
\* log_error has been called.
C17_EveryCaughtExceptionLogged ==
  (RunEnded /\ caught # {}) => log_calls >= 1

----------------------------------------------------------------------------
(* C18: access denied *)

\* C18: a run whose read of an input file was denied by the OS ends with
\* PERMISSION_ERROR_HANDLED, whichever file it is, and a run whose read
\* failed for an unknown file type or a missing column does not.
C18_AccessDeniedDistinguished ==
  /\ (pc = "failed" /\ read_fault = "denied") => result = "PERMISSION_ERROR_HANDLED"
  /\ (pc = "failed" /\ read_fault \in {"unsupported", "missing_column"}) =>
       result # "PERMISSION_ERROR_HANDLED"

----------------------------------------------------------------------------
(* C19: extra record date *)

\* positions of the extra records in the row list
ExtraPositions == {j \in DOMAIN data : RowKind(data[j]) = "extra"}

\* C19: once the row list is final, every extra record made from a file that
\* has the Date column holds the formatted report date in it, whatever the
\* file row held, and so does its row of the written file.
C19_ExtraRecordDate ==
  RunComplete =>
    \A j \in ExtraPositions :
      A \in extra_records_df.columns =>
        /\ Holds(data[j], A, Str(formatted_date))
        /\ pc \in {"written", "done"} => output[j][ColumnIndex(A)] = Str(formatted_date)

\* a written report with an extra record whose file row was dated
\* 01-01-2020 and whose Date is the report date 03-11-2026
C19_Witness ==
  /\ pc = "written"
  /\ ExtraPositions # {}
  /\ \A j \in ExtraPositions :
       /\ extra_records_df.rows[RowIdx(data[j])][A] = Str("01-01-2020")
       /\ output[j][ColumnIndex(A)] = Str("03-11-2026")

----------------------------------------------------------------------------
(* C20: pledge aggregation *)

\* row i of the pledge sheet is an E-Kuber pledge of segment FNO
Counted(i) ==
  /\ Strip(sec_pledge_df[i].SEGMENT) = "FNO"
  /\ Strip(sec_pledge_df[i].PLEDGE_TYPE) = "E-Kuber"

\* the exact decimal sum (in thousandths) of the post-haircut values of the
\* counted rows of a CP code among the first n rows of the sheet
RECURSIVE ExactTotal(_, _)
ExactTotal(cp, n) ==
  IF n = 0 THEN 0
  ELSE ExactTotal(cp, n - 1)
         + (IF /\ Counted(n)
               /\ Strip(sec_pledge_df[n].CPCODE) = cp
               /\ ~IsNa(sec_pledge_df[n].POST_HAIRCUT)
              THEN sec_pledge_df[n].POST_HAIRCUT.n ELSE 0)

\* the CP codes with at least one counted row
CountedCodes == {Strip(sec_pledge_df[i].CPCODE) : i \in {k \in DOMAIN sec_pledge_df : Counted(k)}}

\* C20: the pledge lookup has exactly the CP codes with at least one FNO
\* E-Kuber row, and the value of each is the sum of the post-haircut values
\* of those rows only, rounded once, half-up, to 2 decimals.
C20_PledgeAggregation ==
  pc = "pledge_read" =>
    /\ DOMAIN sec_pledge_cp_lookup = CountedCodes
    /\ \A cp \in CountedCodes :
         sec_pledge_cp_lookup[cp]["post_haircut"]
           = Num(RoundHalfUp2(ExactTotal(cp, Len(sec_pledge_df))))

----------------------------------------------------------------------------
(* C21: lookup last-write-wins *)

\* the client codes of the rows of a source file
CodesOf(rows) == {rows[i][1] : i \in DOMAIN rows}

\* the last row of the file with this client code
LastRow(rows, code) ==
  rows[CHOOSE i \in DOMAIN rows :
         /\ rows[i][1] = code
         /\ \A j \in DOMAIN rows : j > i => rows[j][1] # code]

\* a single-valued lookup holds, for each client code of its file, the value
\* of the last row of that code
LastWins(lookup, rows) ==
  /\ DOMAIN lookup = CodesOf(rows)
  /\ \A code \in CodesOf(rows) : lookup[code] = LastRow(rows, code)[2]

\* a valuation lookup holds both fields of the last row of each client code
LastWinsBoth(lookup, rows) ==
  /\ DOMAIN lookup = CodesOf(rows)
  /\ \A code \in CodesOf(rows) :
       /\ lookup[code]["CashEquivalent"] = LastRow(rows, code)[2]
       /\ lookup[code]["NonCash"] = LastRow(rows, code)[3]

\* C21: each collateral, margin and valuation lookup is determined by its
\* source file: it has the client codes of the file and, for each, the
\* values of the last row with that code (both fields for a valuation).
C21_LookupLastWriteWins ==
  pc = "lookups_read" =>
    /\ LastWins(lookups.fo_collateral_lookup, lookup_df.cash_collateral_fno)
    /\ LastWins(lookups.cd_collateral_lookup, lookup_df.cash_collateral_cds)
    /\ LastWins(lookups.fo_daily_margin_lookup, lookup_df.daily_margin_nsefno)
    /\ LastWins(lookups.cd_daily_margin_lookup, lookup_df.daily_margin_nsecr)
    /\ LastWinsBoth(lookups.fo_collateral_valuation_lookup, lookup_df.collateral_valuation_fno)
    /\ LastWinsBoth(lookups.cd_collateral_valuation_lookup, lookup_df.collateral_valuation_cds)

\* the lookups built from files in which code X has two rows with different
\* values in the collateral, the margin and the valuation file
C21_Witness ==
  /\ pc = "lookups_read"
  /\ lookup_df.cash_collateral_cds = << <<"X", Num(500)>>, <<"X", Num(1)>> >>
  /\ lookup_df.daily_margin_nsecr = << <<"X", Num(1)>>, <<"X", Num(500)>> >>
  /\ lookup_df.collateral_valuation_cds = << <<"X", Num(50), Num(10)>>, <<"X", Num(7), Num(0)>> >>
  /\ lookups.cd_collateral_lookup["X"] = Num(1)
  /\ lookups.cd_daily_margin_lookup["X"] = Num(500)
  /\ lookups.cd_collateral_valuation_lookup["X"]["CashEquivalent"] = Num(7)
  /\ lookups.cd_collateral_valuation_lookup["X"]["NonCash"] = Num(0)

----------------------------------------------------------------------------
(* C22: frame of the AT Adjustment Pass *)

\* C22: a completed AT pass leaves the number and the order of the rows as
\* they were; a row matched by an AT record differs from what it was in
\* columns AV and AT only, and a row no AT record matches is unchanged.
C22_ATPassFrame ==
  [][ (pc = "filtered" /\ pc' = "at_applied") =>
        /\ Len(data') = Len(data)
        /\ \A j \in DOMAIN data :
             /\ data'[j][ORIGIN] = data[j][ORIGIN]
             /\ IF ATKeys(data[j]) # {}
                  THEN /\ DOMAIN data'[j] = DOMAIN data[j] \cup {AV, AT}
                       /\ \A c \in DOMAIN data[j] \ {AV, AT} : data'[j][c] = data[j][c]
                  ELSE data'[j] = data[j] ]_vars

\* after the pass: a list of at least two rows of which one was matched
\* (its AT is the at_value) and one was not
C22_Witness ==
  /\ pc = "at_applied"
  /\ \E j, k \in DOMAIN data :
       /\ ATKeys(data[j]) # {}
       /\ Holds(data[j], AT, Num(ATNumber(Least(ATKeys(data[j])))))
       /\ data[j][AV] # filtered[j][AV]
       /\ ATKeys(data[k]) = {}
       /\ data[k] = filtered[k]

----------------------------------------------------------------------------
(* C23: AV / AT precedence *)

\* positions of the AV records the AV loop matches with row r
AVLoopKeys(r) == {k \in DOMAIN av_records : AVMatches(av_records[k], r)}

\* row r matches an AV record, by the key of the loop or by (account type,
\* segment)
MatchesAV(r) == AVLoopKeys(r) # {} \/ AVKeys(r) # {}

\* C23: the AV override is in the rows when the normalizer returns them, and
\* in the final list every row that matches both an AV record and an AT
\* record has AV = AD - at_value, the result of the AT pass.
C23_ATOverwritesAV ==
  /\ Normalized =>
       \A j \in DOMAIN filtered :
         (IsGenerated(filtered[j]) /\ AVLoopKeys(filtered[j]) # {}) =>
           filtered[j][AV]
             = Num(NumericStrings[av_records[Least(AVLoopKeys(filtered[j]))]["av_value"].s])
  /\ RunComplete =>
       \A j \in DOMAIN data :
         (RowKind(data[j]) # "santom" /\ MatchesAV(data[j]) /\ ATKeys(data[j]) # {}) =>
           /\ IsNum(data[j][AD])
           /\ data[j][AV] = Num(data[j][AD].n - ATNumber(Least(ATKeys(data[j]))))

\* a written report with a row the AV loop had set to the av_value 5 and
\* the AT pass then set to AD - at_value
C23_Witness ==
  /\ pc = "written"
  /\ \E j \in DOMAIN data :
       /\ IsGenerated(data[j])
       /\ AVLoopKeys(data[j]) # {}
       /\ ATKeys(data[j]) # {}
       /\ filtered[j][AV] = Num(5)
       /\ data[j][AD] = Num(200)
       /\ data[j][AV] = Num(200 - ATNumber(Least(ATKeys(data[j]))))

----------------------------------------------------------------------------
(* C24: normalization *)

\* the identity columns: Date, the PANs, CP Code, Account Type, Segment
\* Indicator and UCC Code
IdentityCols == Range(SubSeq(segregation_headers, 1, IdentityColumns))

\* column c of row r is missing or holds None, a blank text, or "NA" in
\* some letter case
BlankOrNA(r, c) ==
  \/ c \notin DOMAIN r
  \/ r[c] = None
  \/ IsStr(r[c]) /\ r[c].s \in {"", " ", "  ", "NA", "na", "na ", "Na", " NA"}

\* the row of the list that was made from the same master entry as r
SameOrigin(rows, r) == rows[CHOOSE k \in DOMAIN rows : rows[k][ORIGIN] = r[ORIGIN]]

\* C24: the normalizer gives every generated row, in every segregation
\* column, integer 0 where the column was missing or held None, a blank text
\* or "NA" in any letter case, and the value it held otherwise; the identity
\* columns are as they were.  (In the list it returns, AZ and BL have then
\* been set to "NA".)
C24_Normalization ==
  [][ (pc = "extras_read" /\ pc' = "filtered") =>
        \A j \in DOMAIN data :
          LET r == data[j]
              step1 == NormalizeRow(r, SegCols)
              after == SameOrigin(data', r)
          IN /\ \A c \in Range(SegCols) :
                  step1[c] = IF BlankOrNA(r, c) THEN Num(0) ELSE r[c]
             /\ \A c \in Range(SegCols) \ {AZ, BL} :
                  after[c] = IF BlankOrNA(r, c) THEN Num(0) ELSE r[c]
             /\ \A c \in IdentityCols :
                  /\ step1[c] = r[c]
                  /\ after[c] = r[c] ]_vars

\* a normalized CD row whose collateral was "na " and an FO row whose
\* collateral was "NA", cash equivalent None and non-cash " ": all are 0
C24_Witness ==
  /\ pc = "filtered"
  /\ \E j, k \in DOMAIN generated :
       /\ generated[j][J] = Str("na ")
       /\ SameOrigin(filtered, generated[j])[J] = Num(0)
       /\ generated[k][J] = Str("NA")
       /\ generated[k][O] = None
       /\ generated[k][P] = Str(" ")
       /\ M \notin DOMAIN generated[k]
       /\ LET n == SameOrigin(filtered, generated[k])
          IN n[J] = Num(0) /\ n[O] = Num(0) /\ n[P] = Num(0) /\ n[M] = Num(0)
                /\ n[D] = generated[k][D]

----------------------------------------------------------------------------
(* C25: segment-only stable sort *)

\* rows i and j of the list are generated rows of the same block: both were
\* all-zero when the normalizer partitioned the rows, or both were not
SameBlock(i, j) ==
  /\ IsGenerated(data[i]) /\ IsGenerated(data[j])
  /\ ZeroRow(AtFilter(data[i])) <=> ZeroRow(AtFilter(data[j]))

----------------------------------------------------------------------------
(* C26: single writer, single reader on the override store *)

\* C26: while the worker thread of a run started from the UI is executing,
\* no edit of the master records writes master_records.json, and the run
\* does not find the file emptied by a save that is under way.
C26_NoEditDuringRun ==
  /\ ~wrote_in_run
  /\ store_seen # "truncated"

----------------------------------------------------------------------------
(* C27: zero tail in the final output *)

\* positions of the generated rows that come after the extra records
TailPositions ==
  {j \in DOMAIN data :
     /\ IsGenerated(data[j])
     /\ ExtraPositions # {}
     /\ \A e \in ExtraPositions : e < j}

\* C27: once the row list is final, every generated row placed after the
\* extra records has 0 in every segregation column other than AZ and BL.
C27_ZeroTail ==
  RunComplete => \A j \in TailPositions : ZeroRow(data[j])

----------------------------------------------------------------------------
(* C28: AV rule for extra records *)

\* positions of the AV records of account type P and segment FO
PFORecords ==
  {k \in DOMAIN av_records :
     Holds(av_records[k], G, Str("P")) /\ Holds(av_records[k], H, Str("FO"))}

\* extra record i is the file row i with the AV of the first P/FO record
\* when overridden is true, and with the AV of the file row, or no AV when
\* the file has no such column, when it is not
ExtraAVRule(i, overridden) ==
  LET row == extra_records_df.rows[i]
      record == extra_records_data[i]
  IN IF overridden
       THEN Holds(record, AV, av_records[Least(PFORecords)]["av_value"])
       ELSE IF AV \in DOMAIN row THEN Holds(record, AV, row[AV])
            ELSE AV \notin DOMAIN record

\* C28 as stated: an extra record is overridden exactly when its account
\* type is "P", its segment is "FO" and a P/FO AV record exists; it then
\* holds the av_value of the first such record, and the AV of its file row
\* otherwise.
C28_ExtraAVRuleExact ==
  pc = "extras_read" =>
    \A i \in DOMAIN extra_records_data :
      ExtraAVRule(i, /\ Holds(extra_records_df.rows[i], G, Str("P"))
                     /\ Holds(extra_records_df.rows[i], H, Str("FO"))
                     /\ PFORecords # {})

\* C28: an extra record is overridden exactly when the text of its account
\* type without its surrounding blanks is "P", that of its segment is "FO"
\* and an AV record of account type "P" and segment "FO" exists; it then
\* holds the av_value of the first such record, and the AV of its file row
\* otherwise.
C28_ExtraAVRule ==
  pc = "extras_read" =>
    \A i \in DOMAIN extra_records_data :
      ExtraAVRule(i, /\ Strip(Text(extra_records_df.rows[i], G)) = "P"
                     /\ Strip(Text(extra_records_df.rows[i], H)) = "FO"
                     /\ PFORecords # {})

\* two extra records read against the AV records (P, FO, "9") and
\* (P, FO, "8"): the P/FO row holds "9", the C/FO row the 5 of its file
C28_Witness ==
  /\ pc = "extras_read"
  /\ av_records = <<AVRecord("P", "FO", "9"), AVRecord("P", "FO", "8")>>
  /\ Len(extra_records_data) = 2
  /\ Holds(extra_records_df.rows[1], G, Str("P"))
  /\ Holds(extra_records_df.rows[1], H, Str("FO"))
  /\ Holds(extra_records_df.rows[1], AV, Num(5))
  /\ Holds(extra_records_data[1], AV, Str("9"))
  /\ Holds(extra_records_df.rows[2], G, Str("C"))
  /\ Holds(extra_records_data[2], AV, Num(5))

----------------------------------------------------------------------------
(* C29: input validation precedes every side effect *)

\* the form is one the run must turn down: the date is blank or the
\* placeholder, the PAN or the output path is blank, the extra-records path
\* is blank, or it names a file that is not there
MustBeRejected(f) ==
  \/ f.date = "DD/MM/YYYY" \/ Strip(f.date) = ""
  \/ Strip(f.cp_pan) = ""
  \/ Strip(f.output_path) = ""
  \/ Strip(f.extra_records) = ""
  \/ ~f.extra_exists

\* no input file has been read and no report, bundle or archive written
NothingReadOrWritten ==
  /\ cp_master_fo = << >> /\ cp_master_cd = << >>
  /\ lookups = EmptyLookups
  /\ sec_pledge_cp_lookup = EmptyDict
  /\ extra_records_df = NoFile /\ santom_df = NoFile
  /\ store = "absent"
  /\ data = << >> /\ output = << >>
  /\ report_file = "" /\ csv_zip = {} /\ archive = {} /\ insert_calls = 0

\* C29: once process has acted on a form that must be turned down, it has
\* raised after one call of log_error, no input file has been read, no file
\* of the report written, and the output folder is there only if it was
\* there before.
C29_ValidationBeforeSideEffects ==
  (pc # "start" /\ MustBeRejected(form)) =>
    /\ pc = "failed" /\ failed_at = "validate_inputs"
    /\ result = "raised"
    /\ log_calls = 1
    /\ NothingReadOrWritten
    /\ output_dir = form.output_exists

----------------------------------------------------------------------------
(* C30: override store key uniqueness *)

\* no two records of the list have the same first field and segment, and
\* the id of each record is its index, counted from 0
UniqueKeys(records, table_type) ==
  /\ \A i, j \in DOMAIN records :
       (/\ records[i][FirstField(table_type)] = records[j][FirstField(table_type)]
        /\ records[i][H] = records[j][H]) => i = j
  /\ \A i \in DOMAIN records : records[i]["id"] = Num(i - 1)

\* C30: after every operation of the editor, the list on the page and the
\* two lists of master_records.json hold no two records with the same
\* (account type, segment), for AV records, or the same (CP code, segment),
\* for AT records, and every id is the index of its record; an add or
\* update that ends with a warning leaves the list and the file as they were.
C30_KeyUniqueness ==
  [][ /\ UniqueKeys(master_records_data', table_type_var')
      /\ UniqueKeys(json_file'.AV_Records, "AV_Records")
      /\ UniqueKeys(json_file'.AT_Records, "AT_Records")
      /\ (last_op' # last_op /\ last_op'.rejected) =>
            /\ master_records_data' = master_records_data
            /\ json_file' = json_file ]_vars

\* two AV records and two AT records are stored, and an update that would
\* have given the second record of the list the key of the first has just
\* been turned down
C30_Witness ==
  /\ Len(json_file.AV_Records) = 2
  /\ Len(json_file.AT_Records) = 2
  /\ Len(master_records_data) = 2
  /\ selected_record_id = 1
  /\ last_op = [op |-> "update", rejected |-> TRUE, duplicate |-> TRUE]

====
